---- MODULE Spec2Model ----
(***************************************************************************)
(* A model of the Schedule-1 mixing tools: the label-setting multi-        *)
(* objective shortest path search of src/src/mosp/mod.rs over the effect   *)
(* graph of src/src/effect_graph/mod.rs, the path reconstruction of        *)
(* src/src/bin.rs, the combinatorial encoder of                            *)
(* src/src/combinatorial/mod.rs and the rule application of                *)
(* src/src/mixing/mod.rs.                                                  *)
(*                                                                         *)
(* Each component has its own specification (SpecMosp, SpecEncoder,        *)
(* SpecMixing); the variables of the other components stay at their idle   *)
(* value.                                                                  *)
(***************************************************************************)
EXTENDS Integers, Sequences, FiniteSets, TLC

VARIABLES
    \* ---- the search (mosp/mod.rs), its graph (effect_graph/mod.rs), lookup (bin.rs)
    successors,        \* EffectGraph.successors: node -> substance index -> node
    predecessors,      \* EffectGraph.predecessors: node -> sequence of nodes
    substance_costs,   \* the substance_costs slice: substance index -> cost
    starting_node,     \* graph.encode(starting_node)
    permanent_labels,  \* node -> sequence of labels, in insertion order
    pending,           \* the priority queue: a function from the queued nodes to their label
    mosp_pc,           \* "idle", "loop" while the main loop runs, "returned" after it
    dominates_logged,  \* whether "new label dominates existing labels!" was printed
    lookup_index,      \* the index of the last lookup, -1 before the first
    lookup_paths,      \* its result: one traced path per label at that index
    \* ---- the encoder CombinatorialEncoder<N, MAX_K> (combinatorial/mod.rs)
    N,                 \* the const generic N
    MAX_K,             \* the const generic MAX_K
    binom,             \* the field binom: index (from 0) -> coefficient
    size_offsets,      \* the field size_offsets: index (from 0) -> offset
    enc_op,            \* the last method run: "idle", "new", "encode", "decode", "maximum_index"
    enc_in,            \* its argument (0 when it has none)
    enc_out,           \* its result
    \* ---- MixtureRules::apply (mixing/mod.rs)
    replacements,      \* self.replacement_rules[substance]: a sequence of rules
    inherent,          \* self.inherent_effects[substance]
    mix_pc,            \* "idle", "ready", "rules" inside the for loop, "returned"
    mix_effects,       \* the local effects
    mix_rule,          \* how many rules the for loop has gone through
    mix_before,        \* effects before the last rule was looked at
    mix_fired,         \* whether the body of the if ran for the last rule
    \* ---- parse_rules_file (mixing/mod.rs), the rules of one substance
    rules,             \* the rules in the order of the file
    ts,                \* the TopologicalSort: element -> its num_prec and succ
    new_order,         \* the local new_order
    load_pc,           \* "idle", "sorting" inside for effects in ts, "loaded"
    previous,          \* the rules an earlier load of the same file returned
    \* ---- EffectGraph::new (effect_graph/mod.rs)
    replacement_rules, \* rules.replacement_rules: substance -> sequence of rules
    inherent_effects,  \* rules.inherent_effects: substance -> effects
    graph_pc,          \* "idle", "building" inside for idx, "built", "panicked"
    graph_idx,         \* the loop variable idx
    \* ---- search_inexact and the Profit command (bin.rs)
    query_pc,          \* "idle", "ready", "searched", "ranked"
    target_effects,    \* the argument target_effects of search_inexact
    search_result,     \* what search_inexact returned
    sell_prices,       \* Profit: node -> its sell_price
    max_mixins,        \* Profit: the longest recipe looked at
    max_results,       \* Profit: the capacity of the TopSet
    profit_results,    \* Profit: the entries in the order they are emitted
    \* ---- FlatStorage (flat_storage/mod.rs)
    ragged,            \* the argument ragged of from: a sequence of rows
    flat_paths,        \* FlatStorage.paths
    flat_offsets,      \* FlatStorage.offsets: 0 .. num_elem -> u32
    flat_pc,           \* "idle", "input", "built", "read", "panicked"
    flat_idx,          \* the argument idx of the last get
    flat_row,          \* the slice the last get returned
    \* ---- PackedValues (packing/mod.rs)
    data,              \* PackedValues.data, DataBits wide
    count,             \* PackedValues.count
    packed_op,         \* the last call: its name, arguments and result
    \* ---- ParetoFront (search/pareto.rs)
    items,             \* ParetoFront.items: the held (objective1, objective2)
    front_added,       \* history: every item add was called with
    front_op           \* the last call of add: its item and what it returned

mospVars == <<successors, predecessors, substance_costs, starting_node,
              permanent_labels, pending, mosp_pc, dominates_logged,
              lookup_index, lookup_paths>>

encVars == <<N, MAX_K, binom, size_offsets, enc_op, enc_in, enc_out>>

mixVars == <<replacements, inherent, mix_pc, mix_effects, mix_rule,
             mix_before, mix_fired>>

loadVars == <<rules, ts, new_order, load_pc, previous>>

graphVars == <<replacement_rules, inherent_effects, graph_pc, graph_idx>>

queryVars == <<query_pc, target_effects, search_result, sell_prices,
               max_mixins, max_results, profit_results>>

flatVars == <<ragged, flat_paths, flat_offsets, flat_pc, flat_idx, flat_row>>

packVars == <<data, count, packed_op>>

frontVars == <<items, front_added, front_op>>

vars == <<mospVars, encVars, mixVars, loadVars, graphVars, queryVars,
          flatVars, packVars, frontVars>>

(***************************************************************************)
(* Bounds of the model.                                                    *)
(***************************************************************************)
NumNodes == 3
NumSub == 2
MaxCost == 1

\* graph.num_nodes() and the node indices; SUBSTANCES.len() and its indices.
Nodes == DOMAIN successors
num_nodes == Cardinality(Nodes)
SubstanceIdx == DOMAIN substance_costs
NumSubstances == Cardinality(SubstanceIdx)

\* Option<T>: None is the empty sequence, Some(x) the sequence of x.
None == << >>
Some(x) == << x >>

(***************************************************************************)
(* Labels (mosp/mod.rs).                                                   *)
(***************************************************************************)
\* The sentinel backlink of a source label (EffectIndex::MAX): a value above
\* every node index of the model.
NICHE == NumNodes + 1

\* u8 and u16 arithmetic of PathLength and Cost.
PathLengthWidth == 256
CostWidth == 65536

Label(length, cost, previous_substance, backlink) ==
    [length |-> length, cost |-> cost,
     previous_substance |-> previous_substance, backlink |-> backlink]

\* The derived Ord of Label: lexicographic in field order.
LabelLess(a, b) ==
    \/ a.length < b.length
    \/ a.length = b.length /\ a.cost < b.cost
    \/ a.length = b.length /\ a.cost = b.cost
         /\ a.previous_substance < b.previous_substance
    \/ a.length = b.length /\ a.cost = b.cost
         /\ a.previous_substance = b.previous_substance /\ a.backlink < b.backlink

\* Label::backlink: None for a source label, else (backlink, previous_substance).
HasBacklink(l) == l.backlink # NICHE

(***************************************************************************)
(* The effect graph (effect_graph/mod.rs).                                 *)
(***************************************************************************)
\* pred.push(idx) without the test pred.contains(&idx).
AddBacklinkUnchecked(succ, preds, idx, s_idx) ==
    LET new_idx == succ[idx][s_idx] IN
    IF new_idx = idx THEN preds
    ELSE [preds EXCEPT ![new_idx] = Append(@, idx)]

\* The body of the two loops of EffectGraph::new for one (idx, s_idx): the
\* backlink idx is appended to predecessors[new_idx] unless the edge is a
\* self loop or idx is already listed.
AddBacklink(succ, preds, idx, s_idx) ==
    LET new_idx == succ[idx][s_idx] IN
    IF new_idx = idx THEN preds
    ELSE IF \E i \in 1 .. Len(preds[new_idx]) : preds[new_idx][i] = idx THEN preds
    ELSE [preds EXCEPT ![new_idx] = Append(@, idx)]

RECURSIVE BuildPredecessors(_, _, _, _)
BuildPredecessors(succ, preds, idx, s_idx) ==
    IF idx >= Cardinality(DOMAIN succ) THEN preds
    ELSE IF s_idx >= NumSubstances THEN BuildPredecessors(succ, preds, idx + 1, 0)
    ELSE BuildPredecessors(succ, AddBacklink(succ, preds, idx, s_idx), idx, s_idx + 1)

\* EffectGraph::new, for a given successor table.
NewPredecessors(succ) ==
    BuildPredecessors(succ, [n \in DOMAIN succ |-> << >>], 0, 0)

\* A variant that takes the last index holding id.
PositionLast(row, id) ==
    IF \E s \in SubstanceIdx : row[s] = id
    THEN CHOOSE s \in SubstanceIdx :
            /\ row[s] = id
            /\ \A t \in SubstanceIdx : row[t] = id => t <= s
    ELSE -1

\* .iter().position(|n2| *n2 == id): the first index holding id; -1 stands for
\* the failed expect.
Position(row, id) ==
    IF \E s \in SubstanceIdx : row[s] = id
    THEN CHOOSE s \in SubstanceIdx :
            /\ row[s] = id
            /\ \A t \in SubstanceIdx : row[t] = id => s <= t
    ELSE -1

\* EffectGraph::predecessors_with_substances: the sequence of (pred, substance).
predecessors_with_substances(id) ==
    [i \in 1 .. Len(predecessors[id]) |->
        << predecessors[id][i], Position(successors[predecessors[id][i]], id) >>]

(***************************************************************************)
(* The search (mosp/mod.rs).                                               *)
(***************************************************************************)
\* The loop of label_nondominated_nonequal from existing[i] on: which arm of
\* the match ends it.
RECURSIVE ScanExisting(_, _, _)
ScanExisting(label, existing, i) ==
    IF i > Len(existing) THEN "nondominated"
    ELSE LET ex == existing[i] IN
         IF \/ ex.length < label.length /\ ex.cost <= label.cost
            \/ ex.length = label.length /\ ex.cost < label.cost
         THEN "dominated"
         ELSE IF \/ ex.length > label.length /\ ex.cost >= label.cost
                 \/ ex.length = label.length /\ ex.cost > label.cost
         THEN "dominates_existing"
         ELSE IF ex.length = label.length /\ ex.cost = label.cost
         THEN "equal"
         ELSE ScanExisting(label, existing, i + 1)

\* A variant whose loop leaves out the first existing label.
label_nondominated_after_first(label, existing) ==
    ScanExisting(label, existing, 2) \in {"nondominated", "dominates_existing"}

\* A variant without the test: every label passes.
label_always_accepted(label, existing) == TRUE

\* A variant whose (Equal, Equal) arm returns true: with it a node collects
\* equal labels.
label_nondominated_only(label, existing) ==
    ScanExisting(label, existing, 1) # "dominated"

label_nondominated_nonequal(label, existing) ==
    ScanExisting(label, existing, 1) \in {"nondominated", "dominates_existing"}

\* Whether the call prints "new label dominates existing labels!".
LogsDomination(label, existing) ==
    ScanExisting(label, existing, 1) = "dominates_existing"

\* The inner loop of next_candidate_label over permanent_labels[pred], from
\* its i-th label on: the first extension that passes the test (the break).
RECURSIVE FirstExtension(_, _, _, _, _, _)
FirstExtension(node, pred, sub, costs, perm, i) ==
    IF i > Len(perm[pred]) THEN None
    ELSE LET old_label == perm[pred][i]
             new_label == Label((old_label.length + 1) % PathLengthWidth,
                                (old_label.cost + costs[sub]) % CostWidth,
                                sub, node)
         IN IF label_nondominated_nonequal(new_label, perm[node])
            THEN Some(new_label)
            ELSE FirstExtension(node, pred, sub, costs, perm, i + 1)

\* The outer loop of next_candidate_label, from the j-th predecessor on.
RECURSIVE CandidateLoop(_, _, _, _, _, _)
CandidateLoop(node, preds, costs, perm, j, new_candidate) ==
    IF j > Len(preds) THEN new_candidate
    ELSE LET ext == FirstExtension(node, preds[j][1], preds[j][2], costs, perm, 1)
             kept == IF ext = None THEN new_candidate
                     ELSE IF new_candidate = None THEN ext
                     ELSE IF LabelLess(ext[1], new_candidate[1]) THEN ext
                     ELSE new_candidate
         IN CandidateLoop(node, preds, costs, perm, j + 1, kept)

next_candidate_label(node, preds, costs, perm) ==
    CandidateLoop(node, preds, costs, perm, 1, None)

\* PriorityQueue::push: insert, or replace the priority of a queued item.
QueuePush(q, node, label) ==
    [n \in (DOMAIN q) \cup {node} |-> IF n = node THEN label ELSE q[n]]

\* A variant that keeps the greater of the queued and the new label.
push_decrease(q, node, label) ==
    IF node \notin DOMAIN q THEN QueuePush(q, node, label)
    ELSE IF LabelLess(q[node], label) THEN QueuePush(q, node, label)
    ELSE q

\* PriorityQueue::push_increase with Reverse priorities: insert, or replace
\* the queued label when the new one is smaller.
push_increase(q, node, label) ==
    IF node \notin DOMAIN q THEN QueuePush(q, node, label)
    ELSE IF LabelLess(label, q[node]) THEN QueuePush(q, node, label)
    ELSE q

\* A variant that pops an item of least priority, i.e. of greatest label.
PopChoicesGreatest(q) ==
    {n \in DOMAIN q : \A m \in DOMAIN q : ~LabelLess(q[n], q[m])}

\* PriorityQueue::pop takes an item of greatest priority, i.e. of smallest
\* label; which one among equal labels is the heap's choice.
PopChoices(q) ==
    {n \in DOMAIN q : \A m \in DOMAIN q : ~LabelLess(q[m], q[n])}

propagate(new_label, child, child_permanent_labels, q) ==
    IF ~label_nondominated_nonequal(new_label, child_permanent_labels) THEN q
    ELSE push_increase(q, child, new_label)

\* The label the main loop hands to propagate for substance index idx.
ForwardLabel(label, node, idx) ==
    Label((label.length + 1) % PathLengthWidth,
          (label.cost + substance_costs[idx]) % CostWidth, idx, node)

\* The for loop over graph.successors(node), from substance index idx on.
RECURSIVE PropagateLoop(_, _, _, _, _)
PropagateLoop(label, node, perm, q, idx) ==
    IF idx >= NumSubstances THEN q
    ELSE LET child == successors[node][idx] IN
         PropagateLoop(label, node, perm,
                       propagate(ForwardLabel(label, node, idx), child, perm[child], q),
                       idx + 1)

\* Whether one iteration of the main loop prints the domination message.
IterationLogs(label, node, perm) ==
    \/ \E j \in 1 .. Len(predecessors[node]) :
         LET ps == predecessors_with_substances(node)
             ext == FirstExtension(node, ps[j][1], ps[j][2], substance_costs, perm, 1)
         IN ext # None /\ LogsDomination(ext[1], perm[node])
    \/ \E idx \in SubstanceIdx :
         LogsDomination(ForwardLabel(label, node, idx), perm[successors[node][idx]])

\* One iteration of the while loop of multiobjective_shortest_path.
Iterate ==
    /\ mosp_pc = "loop"
    /\ DOMAIN pending # {}
    /\ \E node \in PopChoices(pending) :
         LET label == pending[node]
             popped == [n \in (DOMAIN pending) \ {node} |-> pending[n]]
             perm == [permanent_labels EXCEPT ![node] = Append(@, label)]
             candidate == next_candidate_label(node, predecessors_with_substances(node),
                                               substance_costs, perm)
             requeued == IF candidate = None THEN popped
                         ELSE QueuePush(popped, node, candidate[1])
         IN /\ permanent_labels' = perm
            /\ pending' = PropagateLoop(label, node, perm, requeued, 0)
            /\ dominates_logged' = (dominates_logged \/ IterationLogs(label, node, perm))
    /\ UNCHANGED <<successors, predecessors, substance_costs, starting_node,
                   mosp_pc, lookup_index, lookup_paths>>
    /\ UNCHANGED <<encVars, mixVars, loadVars, graphVars, queryVars,
                   flatVars, packVars, frontVars>>

\* pending.pop() returns None: the function returns permanent_labels.
Return ==
    /\ mosp_pc = "loop"
    /\ DOMAIN pending = {}
    /\ mosp_pc' = "returned"
    /\ UNCHANGED <<successors, predecessors, substance_costs, starting_node,
                   permanent_labels, pending, dominates_logged,
                   lookup_index, lookup_paths>>
    /\ UNCHANGED <<encVars, mixVars, loadVars, graphVars, queryVars,
                   flatVars, packVars, frontVars>>

(***************************************************************************)
(* Path reconstruction (bin.rs).                                           *)
(***************************************************************************)
\* .iter().find(|candidate| candidate.length == length): the first such label.
FindLength(row, length) ==
    IF \E i \in 1 .. Len(row) : row[i].length = length
    THEN Some(row[CHOOSE i \in 1 .. Len(row) :
                    /\ row[i].length = length
                    /\ \A k \in 1 .. Len(row) : row[k].length = length => i <= k])
    ELSE None

ReverseSeq(s) == [i \in 1 .. Len(s) |-> s[Len(s) + 1 - i]]

\* The while loop of trace_path; path holds the substances pushed so far.
\* The result is Some(path), or None when the expect fails.
RECURSIVE TraceLoop(_, _, _)
TraceLoop(l, paths, path) ==
    IF ~HasBacklink(l) THEN Some(ReverseSeq(path))
    ELSE LET found == FindLength(paths[l.backlink], (l.length - 1) % PathLengthWidth)
         IN IF found = None THEN None
            ELSE TraceLoop(found[1], paths, Append(path, l.previous_substance))

trace_path(start, paths) == TraceLoop(start, paths, << >>)

\* lookup(index, labels): one trace per label stored at index.
Lookup(index) ==
    /\ mosp_pc = "returned"
    /\ lookup_index' = index
    /\ lookup_paths' = [i \in 1 .. Len(permanent_labels[index]) |->
                          trace_path(permanent_labels[index][i], permanent_labels)]
    /\ UNCHANGED <<successors, predecessors, substance_costs, starting_node,
                   permanent_labels, pending, mosp_pc, dominates_logged>>
    /\ UNCHANGED <<encVars, mixVars, loadVars, graphVars, queryVars,
                   flatVars, packVars, frontVars>>

(***************************************************************************)
(* The idle values of each component, for the specifications of the others.*)
(***************************************************************************)
IdleMosp ==
    /\ successors = << >>
    /\ predecessors = << >>
    /\ substance_costs = << >>
    /\ starting_node = 0
    /\ permanent_labels = << >>
    /\ pending = << >>
    /\ mosp_pc = "idle"
    /\ dominates_logged = FALSE
    /\ lookup_index = -1
    /\ lookup_paths = << >>

IdleEncoder ==
    /\ N = 0
    /\ MAX_K = 0
    /\ binom = << >>
    /\ size_offsets = << >>
    /\ enc_op = "idle"
    /\ enc_in = 0
    /\ enc_out = 0

IdleMixing ==
    /\ replacements = << >>
    /\ inherent = {}
    /\ mix_pc = "idle"
    /\ mix_effects = {}
    /\ mix_rule = 0
    /\ mix_before = {}
    /\ mix_fired = FALSE

IdleLoad ==
    /\ rules = << >>
    /\ ts = << >>
    /\ new_order = << >>
    /\ load_pc = "idle"
    /\ previous = << >>

IdleGraph ==
    /\ replacement_rules = << >>
    /\ inherent_effects = << >>
    /\ graph_pc = "idle"
    /\ graph_idx = 0

IdleQuery ==
    /\ query_pc = "idle"
    /\ target_effects = {}
    /\ search_result = << >>
    /\ sell_prices = << >>
    /\ max_mixins = 0
    /\ max_results = 0
    /\ profit_results = << >>

IdleFlat ==
    /\ ragged = << >>
    /\ flat_paths = << >>
    /\ flat_offsets = << >>
    /\ flat_pc = "idle"
    /\ flat_idx = 0
    /\ flat_row = << >>

IdlePacked ==
    /\ data = 0
    /\ count = 0
    /\ packed_op = << >>

IdleFront ==
    /\ items = << >>
    /\ front_added = {}
    /\ front_op = << >>

(***************************************************************************)
(* The specification of the search.                                        *)
(***************************************************************************)
\* Every graph over NumNodes nodes and NumSub substances.
GeneralGraphs ==
    [0 .. (NumNodes - 1) -> [0 .. (NumSub - 1) -> 0 .. (NumNodes - 1)]]

\* The graphs over the nodes 0 .. k-1 of n, with subs substances, in which
\* every edge leads to a higher index, but at the last node, whose edges are
\* self loops (acyclic multigraphs with one sink).
RECURSIVE ForwardGraphs(_, _, _)
ForwardGraphs(n, subs, k) ==
    IF k = 0 THEN {<< >>}
    ELSE {g @@ ((k - 1) :> row) :
            g \in ForwardGraphs(n, subs, k - 1),
            row \in [0 .. (subs - 1) ->
                        IF k = n THEN {n - 1} ELSE k .. (n - 1)]}

\* The inputs of the search: any graph, any costs and any start over the
\* bounds; or, one node and one substance larger, a forward graph searched
\* from node 0 with pairwise different costs.
InitInputs ==
    \/ /\ successors \in GeneralGraphs
       /\ substance_costs \in [0 .. (NumSub - 1) -> 0 .. MaxCost]
       /\ starting_node \in DOMAIN successors
    \/ /\ successors \in ForwardGraphs(NumNodes + 1, NumSub + 1, NumNodes + 1)
       /\ substance_costs \in
            {c \in [0 .. NumSub -> 0 .. (MaxCost + 1)] :
                \A s, t \in 0 .. NumSub : s # t => c[s] # c[t]}
       /\ starting_node = 0

InitMosp ==
    /\ InitInputs
    /\ predecessors = NewPredecessors(successors)
    /\ permanent_labels = [n \in Nodes |-> << >>]
    /\ pending = (starting_node :> Label(0, 0, 0, NICHE))
    /\ mosp_pc = "loop"
    /\ dominates_logged = FALSE
    /\ lookup_index = -1
    /\ lookup_paths = << >>
    /\ IdleEncoder
    /\ IdleMixing
    /\ IdleLoad
    /\ IdleGraph
    /\ IdleQuery
    /\ IdleFlat
    /\ IdlePacked
    /\ IdleFront

NextMosp ==
    \/ Iterate
    \/ Return
    \/ \E index \in Nodes : Lookup(index)

SpecMosp == InitMosp /\ [][NextMosp]_vars

(***************************************************************************)
(* Walks of the graph, to state what the search is to compute.             *)
(***************************************************************************)
\* The longest walk looked at: every simple path of the largest graph, and
\* walks through a cycle.
MaxWalk == NumNodes + 1

\* The <<end node, total cost>> of the walks of exactly k edges from the start.
RECURSIVE WalkEnds(_)
WalkEnds(k) ==
    IF k = 0 THEN {<<starting_node, 0>>}
    ELSE LET prev == WalkEnds(k - 1) IN
         {<<successors[p[1]][s], p[2] + substance_costs[s]>> :
             p \in prev, s \in SubstanceIdx}

\* <<end node, length, cost>> of every walk of at most MaxWalk edges.
Walks == UNION {{<<p[1], k, p[2]>> : p \in WalkEnds(k)} : k \in 0 .. MaxWalk}

\* The total substance cost of a recipe, and the node it leads to from n.
RECURSIVE PathCost(_)
PathCost(p) ==
    IF p = << >> THEN 0 ELSE substance_costs[Head(p)] + PathCost(Tail(p))

RECURSIVE Simulate(_, _)
Simulate(n, p) ==
    IF p = << >> THEN n ELSE Simulate(successors[n][Head(p)], Tail(p))

(***************************************************************************)
(* Claims about the search.                                                *)
(***************************************************************************)
\* C1: when the search has returned, every walk from the start to a node u
\* (also one over an edge that a cheaper or dearer substance doubles) is
\* weakly dominated by a label of permanent[u]: some label has length <= the
\* walk's length and cost <= the walk's cost.
C1_WalksWeaklyDominated ==
    mosp_pc = "returned" =>
        \A w \in Walks : \E i \in 1 .. Len(permanent_labels[w[1]]) :
            /\ permanent_labels[w[1]][i].length <= w[2]
            /\ permanent_labels[w[1]][i].cost <= w[3]

\* C2: in every state of the main loop and after it, no two labels of one
\* permanent[u] have equal (length, cost) and none dominates another.
C2_PermanentAntichain ==
    \A u \in Nodes : \A i, j \in 1 .. Len(permanent_labels[u]) :
        i # j => LET a == permanent_labels[u][i]
                     b == permanent_labels[u][j]
                 IN ~(a.length <= b.length /\ a.cost <= b.cost)

\* A node has got a second label, and both have been kept to the end.
C2_Witness ==
    /\ mosp_pc = "returned"
    /\ \E u \in Nodes : Len(permanent_labels[u]) >= 2

\* C3: every label appended to permanent[u] has the (length, cost) of a walk
\* from the start to u, and no other walk to u dominates it.
C3_LabelsParetoOptimal ==
    \A u \in Nodes : \A i \in 1 .. Len(permanent_labels[u]) :
        LET l == permanent_labels[u][i] IN
        /\ <<u, l.length, l.cost>> \in Walks
        /\ \A w \in Walks :
              w[1] = u /\ w[2] <= l.length /\ w[3] <= l.cost
                  => w[2] = l.length /\ w[3] = l.cost

\* C4: for every label L stored at the index looked up, trace_path finds
\* every predecessor label and returns a recipe P with len(P) = L.length,
\* cost(P) = L.cost, that leads from the start node to that index.
C4_TraceRoundTrip ==
    lookup_index >= 0 =>
        \A i \in 1 .. Len(lookup_paths) :
            /\ lookup_paths[i] # None
            /\ LET p == lookup_paths[i][1]
                   l == permanent_labels[lookup_index][i]
               IN /\ Len(p) = l.length
                  /\ PathCost(p) = l.cost
                  /\ Simulate(starting_node, p) = lookup_index


(***************************************************************************)
(* The combinatorial encoder (combinatorial/mod.rs).                       *)
(***************************************************************************)
\* The largest N whose bitsets the model encodes and decodes.
MaxN == 5

\* The encoder of the effect sets: CombinatorialEncoder<NUM_EFFECTS, MAX_EFFECTS>.
NUM_EFFECTS == 34
MAX_EFFECTS == 8

\* A u64 bitset is the natural number of its bits.
RECURSIVE Pow2(_)
Pow2(e) == IF e = 0 THEN 1 ELSE 2 * Pow2(e - 1)

RECURSIVE count_ones(_)
count_ones(x) == IF x = 0 THEN 0 ELSE (x % 2) + count_ones(x \div 2)

RECURSIVE trailing_zeros(_)
trailing_zeros(x) == IF x % 2 = 1 THEN 0 ELSE 1 + trailing_zeros(x \div 2)

TestBit(x, e) == (x \div Pow2(e)) % 2 = 1

\* remaining & !(1 << elem) and bitset | (1 << elem).
ClearBit(x, e) == IF TestBit(x, e) THEN x - Pow2(e) ELSE x
SetBit(x, e) == IF TestBit(x, e) THEN x ELSE x + Pow2(e)

triangle_index(row, column, n) ==
    ((column * (2 * n - column + 1)) \div 2) + row

binomial_coeff(triangle, row, column, n) ==
    IF row < column THEN 0 ELSE triangle[triangle_index(row, column, n)]

\* The u32 sum of two coefficients. The model's integers end at 2^31 - 1: a
\* sum beyond that is kept as -1, and so is every sum made of it. Of the
\* triangles built here only C(34, 16), C(34, 17) and C(34, 18) are that
\* large (all are below 2^32, so the u32 sum does not wrap).
coeff_add(a, b) ==
    IF a < 0 \/ b < 0 \/ a > 2147483647 - b THEN -1 ELSE a + b

\* The entry that new() writes at (row, column).
pascal_entry(triangle, row, column, n) ==
    IF column = 0 \/ column = row THEN 1
    ELSE coeff_add(binomial_coeff(triangle, row - 1, column - 1, n),
                   binomial_coeff(triangle, row - 1, column, n))

\* The inner for loop of new() over the columns of one row, from column on.
\* The store binom[triangle_index(row, column, N)] is within the vector for
\* every column <= row <= n.
RECURSIVE fill_row(_, _, _, _)
fill_row(triangle, row, column, n) ==
    IF column > row \/ triangle_index(row, column, n) \notin DOMAIN triangle
    THEN triangle
    ELSE fill_row((triangle_index(row, column, n) :>
                       pascal_entry(triangle, row, column, n)) @@ triangle,
                  row, column + 1, n)

\* The outer for loop of new() over the rows, from row on.
RECURSIVE fill_binom(_, _, _)
fill_binom(triangle, row, n) ==
    IF row > n THEN triangle
    ELSE fill_binom(fill_row(triangle, row, 0, n), row + 1, n)

\* vec![0u32; (n + 1) * (n + 2) / 2] with binom[0] = 1, then the loops.
new_binom(n) ==
    fill_binom([i \in 0 .. ((((n + 1) * (n + 2)) \div 2) - 1) |->
                   IF i = 0 THEN 1 ELSE 0],
               1, n)

\* A variant that stores the coefficient of the size before instead of the
\* running total: the index ranges of the sizes overlap.
RECURSIVE fill_size_offsets_no_total(_, _, _, _, _, _)
fill_size_offsets_no_total(triangle, offsets, running_total, k, n, max_k) ==
    IF k >= max_k + 1 THEN [offsets EXCEPT ![max_k + 1] = running_total]
    ELSE fill_size_offsets_no_total(triangle, [offsets EXCEPT ![k] = running_total],
                                    triangle[triangle_index(n, k, n)],
                                    k + 1, n, max_k)

\* The loop of new() over k in 0..MAX_K + 1, from k on, and the final store
\* of the running total at MAX_K + 1.
RECURSIVE fill_size_offsets(_, _, _, _, _, _)
fill_size_offsets(triangle, offsets, running_total, k, n, max_k) ==
    IF k >= max_k + 1 THEN [offsets EXCEPT ![max_k + 1] = running_total]
    ELSE fill_size_offsets(triangle, [offsets EXCEPT ![k] = running_total],
                           coeff_add(running_total, triangle[triangle_index(n, k, n)]),
                           k + 1, n, max_k)

new_size_offsets(triangle, n, max_k) ==
    fill_size_offsets(triangle, [i \in 0 .. (max_k + 1) |-> 0], 0, 0, n, max_k)

\* A variant that never advances the column: the index is no longer
\* monotone in the elements.
encode_term_first_column(elem, counter) ==
    IF elem < counter THEN 0 ELSE binom[triangle_index(elem, 1, N)]

\* What one pass of the while loop of encode adds to local_idx.
encode_term(elem, counter) ==
    IF elem < counter THEN 0 ELSE binom[triangle_index(elem, counter, N)]

RECURSIVE encode_loop(_, _, _)
encode_loop(remaining, counter, local_idx) ==
    IF remaining = 0 THEN local_idx
    ELSE LET elem == trailing_zeros(remaining) IN
         encode_loop(ClearBit(remaining, elem), counter + 1,
                     local_idx + encode_term(elem, counter))

\* The result of a failed assert!: no index.
Panic == -1

encode(bitset) ==
    LET k == count_ones(bitset) IN
    IF k > MAX_K THEN Panic
    ELSE size_offsets[k] + encode_loop(bitset, 1, 0)

\* A variant with the predicate |x| *x < index: the first index of a size is
\* decoded as the size before.
RECURSIVE partition_point_strict(_, _, _)
partition_point_strict(offsets, index, i) ==
    IF i > MAX_K + 1 THEN i
    ELSE IF offsets[i] < index THEN partition_point_strict(offsets, index, i + 1)
    ELSE i

\* slice::partition_point(|x| *x <= index) on the sorted size_offsets: the
\* number of leading entries that are <= index.
RECURSIVE partition_point(_, _, _)
partition_point(offsets, index, i) ==
    IF i > MAX_K + 1 THEN i
    ELSE IF offsets[i] <= index THEN partition_point(offsets, index, i + 1)
    ELSE i

saturating_sub(a, b) == IF a < b THEN 0 ELSE a - b

\* A variant with elem <= k for elem < k: the element k - 1 is never found.
RECURSIVE decode_scan_skips(_, _, _, _)
decode_scan_skips(elem, value, k, local_idx) ==
    IF value > local_idx
    THEN decode_scan_skips(elem - 1,
                           IF elem - 1 <= k THEN 0
                           ELSE binom[triangle_index(elem - 1, k, N)],
                           k, local_idx)
    ELSE <<elem, value>>

\* The inner while loop of decode: <<elem, value>> when it ends.
RECURSIVE decode_scan(_, _, _, _)
decode_scan(elem, value, k, local_idx) ==
    IF value > local_idx
    THEN decode_scan(elem - 1,
                     IF elem - 1 < k THEN 0
                     ELSE binom[triangle_index(elem - 1, k, N)],
                     k, local_idx)
    ELSE <<elem, value>>

\* The outer while loop of decode.
RECURSIVE decode_loop(_, _, _)
decode_loop(k, bitset, local_idx) ==
    IF k = 0 THEN bitset
    ELSE LET found == decode_scan(N, binom[triangle_index(N, k, N)], k, local_idx) IN
         decode_loop(k - 1, SetBit(bitset, found[1]), local_idx - found[2])

decode(index) ==
    LET k == saturating_sub(partition_point(size_offsets, index, 0), 1) IN
    decode_loop(k, 0, index - size_offsets[k])

\* A variant that returns the offset of the largest size, not the total.
maximum_index_last_offset == size_offsets[MAX_K]

maximum_index == size_offsets[MAX_K + 1]

\* encoder.encode(bitset), for a bitset over the bits [0, N).
Encode(bitset) ==
    /\ enc_op # "idle"
    /\ N <= MaxN
    /\ bitset < Pow2(N)
    /\ enc_op' = "encode"
    /\ enc_in' = bitset
    /\ enc_out' = encode(bitset)
    /\ UNCHANGED <<N, MAX_K, binom, size_offsets, mospVars, mixVars, loadVars, graphVars, queryVars,
                   flatVars, packVars, frontVars>>

\* encoder.decode(index), for an index below maximum_index().
Decode(index) ==
    /\ enc_op # "idle"
    /\ N <= MaxN
    /\ index < maximum_index
    /\ enc_op' = "decode"
    /\ enc_in' = index
    /\ enc_out' = decode(index)
    /\ UNCHANGED <<N, MAX_K, binom, size_offsets, mospVars, mixVars, loadVars, graphVars, queryVars,
                   flatVars, packVars, frontVars>>

\* encoder.maximum_index().
MaximumIndex ==
    /\ enc_op # "idle"
    /\ enc_op' = "maximum_index"
    /\ enc_in' = 0
    /\ enc_out' = maximum_index
    /\ UNCHANGED <<N, MAX_K, binom, size_offsets, mospVars, mixVars, loadVars, graphVars, queryVars,
                   flatVars, packVars, frontVars>>

\* The encoders built: every <N, MAX_K> with MAX_K <= N <= MaxN, and the
\* encoder of the effect sets.
EncoderParams ==
    {<<n, k>> : n \in 1 .. MaxN, k \in 0 .. MaxN} \cup {<<NUM_EFFECTS, MAX_EFFECTS>>}

InitEncoder ==
    /\ \E p \in {q \in EncoderParams : q[2] <= q[1]} :
          /\ N = p[1]
          /\ MAX_K = p[2]
          /\ binom = new_binom(p[1])
          /\ size_offsets = new_size_offsets(new_binom(p[1]), p[1], p[2])
    /\ enc_op = "new"
    /\ enc_in = 0
    /\ enc_out = 0
    /\ IdleMosp
    /\ IdleMixing
    /\ IdleLoad
    /\ IdleGraph
    /\ IdleQuery
    /\ IdleFlat
    /\ IdlePacked
    /\ IdleFront

NextEncoder ==
    \/ \E bitset \in 0 .. (Pow2(MaxN) - 1) : Encode(bitset)
    \/ \E index \in 0 .. (Pow2(MaxN) - 1) : Decode(index)
    \/ MaximumIndex

SpecEncoder == InitEncoder /\ [][NextEncoder]_vars


(***************************************************************************)
(* Subsets and binomial coefficients, to state what the encoder computes.  *)
(***************************************************************************)
\* The bitsets over the bits [0, N) and the set a bitset stands for.
Bitsets == 0 .. (Pow2(N) - 1)
Elements(x) == {e \in 0 .. (N - 1) : TestBit(x, e)}

RECURSIVE SortedAscending(_)
SortedAscending(S) ==
    IF S = {} THEN << >>
    ELSE LET m == CHOOSE x \in S : \A y \in S : x <= y
         IN <<m>> \o SortedAscending(S \ {m})

RECURSIVE SortedDescending(_)
SortedDescending(S) ==
    IF S = {} THEN << >>
    ELSE LET m == CHOOSE x \in S : \A y \in S : x >= y
         IN <<m>> \o SortedDescending(S \ {m})

\* The lexicographic order of sequences of numbers.
LexLess(s, t) ==
    \/ Len(s) < Len(t) /\ \A j \in 1 .. Len(s) : s[j] = t[j]
    \/ \E i \in 1 .. Len(s) :
          /\ i <= Len(t)
          /\ s[i] < t[i]
          /\ \A j \in 1 .. (i - 1) : s[j] = t[j]

\* The number of subsets of [0, N) with fewer than k elements, by counting.
SubsetsSmallerThan(k) ==
    Cardinality({S \in SUBSET (0 .. (N - 1)) : Cardinality(S) < k})

\* C(n, k) by the product formula.
RECURSIVE Choose(_, _)
Choose(n, k) ==
    IF k = 0 THEN 1 ELSE (Choose(n, k - 1) * (n - k + 1)) \div k

RECURSIVE SumChoose(_, _)
SumChoose(n, k) ==
    IF k = 0 THEN 0 ELSE SumChoose(n, k - 1) + Choose(n, k - 1)

\* The order of the lists of the tests: by size, then by numeric value.
SizeThenValueLess(a, b) ==
    \/ count_ones(a) < count_ones(b)
    \/ count_ones(a) = count_ones(b) /\ a < b

\* The items of test_roundtrip, in order (test_roundtrip_4_2 has the first 11).
RoundtripItems == <<0, 1, 2, 4, 8, 3, 5, 6, 9, 10, 12, 7, 11, 13, 14, 15>>

(***************************************************************************)
(* Claims about the encoder.                                               *)
(***************************************************************************)
\* C5: decode(encode(mask)) = mask for every bitset over [0, N) with at most
\* MAX_K bits, and encode(decode(i)) = i for every i below maximum_index();
\* the indices of the bitsets are below maximum_index() and the bitsets of
\* the indices have at most MAX_K bits.
C5_RoundTrip ==
    /\ (enc_op = "encode" /\ enc_out # Panic) =>
          /\ enc_out \in 0 .. (maximum_index - 1)
          /\ decode(enc_out) = enc_in
    /\ enc_op = "decode" =>
          /\ enc_out \in Bitsets
          /\ count_ones(enc_out) <= MAX_K
          /\ encode(enc_out) = enc_in

\* The last index of <4, 2> has been decoded, to {2, 3}.
C5_Witness ==
    /\ N = 4 /\ MAX_K = 2
    /\ enc_op = "decode" /\ enc_in = 10 /\ enc_out = 12

C7_SizeOrder ==
    (enc_op = "encode" /\ enc_out # Panic) =>
        LET k == count_ones(enc_in) IN
        /\ SubsetsSmallerThan(k) <= enc_out
        /\ enc_out < SubsetsSmallerThan(k + 1)
        /\ \A b \in Bitsets :
              (count_ones(b) <= MAX_K /\ k < count_ones(b)) => enc_out < encode(b)

\* The last two-element subset of <5, 3> has been encoded: three-element
\* subsets follow it.
C7_Witness ==
    /\ N = 5 /\ MAX_K = 3
    /\ enc_op = "encode" /\ enc_in = 24 /\ enc_out = 15

\* C8: the index of a bitset is its place in the list of the bitsets with at
\* most MAX_K bits ordered by size, then by numeric value; decode returns the
\* bitset at that place; for <4, 4> and <4, 2> the list is that of the tests.
C8_SizeThenValueRank ==
    /\ (enc_op = "encode" /\ enc_out # Panic) =>
          /\ enc_out = Cardinality({m \in Bitsets : SizeThenValueLess(m, enc_in)})
          /\ (N = 4 /\ MAX_K \in {2, 4}) => RoundtripItems[enc_out + 1] = enc_in
    /\ enc_op = "decode" =>
          /\ enc_in = Cardinality({m \in Bitsets : SizeThenValueLess(m, enc_out)})
          /\ (N = 4 /\ MAX_K \in {2, 4}) => RoundtripItems[enc_in + 1] = enc_out

\* Index 8 of <4, 2> has been decoded, to the item {0, 3} of the test.
C8_Witness ==
    /\ N = 4 /\ MAX_K = 2
    /\ enc_op = "decode" /\ enc_in = 8 /\ enc_out = 9

\* C9, as claimed: maximum_index() is the sum of C(N, k) over k = 0..MAX_K,
\* the number of subsets with at most MAX_K elements, and size_offsets holds
\* the partial sums; for <34, 8> maximum_index() is 25,574,936 and the
\* offsets start 0, 1, 1 + 34, 1 + 34 + 561.
C9_MaximumIndexAsClaimed ==
    enc_op = "maximum_index" =>
        /\ enc_out = SumChoose(N, MAX_K + 1)
        /\ \A k \in 0 .. (MAX_K + 1) : size_offsets[k] = SumChoose(N, k)
        /\ N <= MaxN =>
              /\ enc_out = SubsetsSmallerThan(MAX_K + 1)
              /\ \A k \in 0 .. (MAX_K + 1) : size_offsets[k] = SubsetsSmallerThan(k)
        /\ (N = NUM_EFFECTS /\ MAX_K = MAX_EFFECTS) =>
              /\ enc_out = 25574936
              /\ size_offsets[0] = 0
              /\ size_offsets[1] = 1
              /\ size_offsets[2] = 1 + 34
              /\ size_offsets[3] = 1 + 34 + 561

\* C9, amended: the same, but for <34, 8> maximum_index() is 25,211,936,
\* the sum that test_expected_size_34_8 spells out.
C9_MaximumIndex ==
    enc_op = "maximum_index" =>
        /\ enc_out = SumChoose(N, MAX_K + 1)
        /\ \A k \in 0 .. (MAX_K + 1) : size_offsets[k] = SumChoose(N, k)
        /\ N <= MaxN =>
              /\ enc_out = SubsetsSmallerThan(MAX_K + 1)
              /\ \A k \in 0 .. (MAX_K + 1) : size_offsets[k] = SubsetsSmallerThan(k)
        /\ (N = NUM_EFFECTS /\ MAX_K = MAX_EFFECTS) =>
              /\ enc_out = 25211936
              /\ enc_out = 1 + 34 + 561 + 5984 + 46376 + 278256 + 1344904
                              + 5379616 + 18156204
              /\ size_offsets[0] = 0
              /\ size_offsets[1] = 1
              /\ size_offsets[2] = 1 + 34
              /\ size_offsets[3] = 1 + 34 + 561

\* maximum_index() has been called on the encoder of the effect sets.
C9_Witness ==
    /\ N = NUM_EFFECTS /\ MAX_K = MAX_EFFECTS
    /\ enc_op = "maximum_index" /\ enc_out = size_offsets[9]


(***************************************************************************)
(* Rule application (mixing/mod.rs).                                       *)
(***************************************************************************)
\* The number of effects of the model; an Effects value is the set of its
\* flags.
EffectBits == 3
AllEffects == 0 .. (EffectBits - 1)

Rule(if_present, if_not_present, remove, add) ==
    [if_present |-> if_present, if_not_present |-> if_not_present,
     remove |-> remove, add |-> add]

\* bitflags' contains: every flag of other is set in effects (true of the
\* empty other).
contains(effects, other) == other \subseteq effects

\* The condition of the if in the for loop of apply.
rule_condition(effects, rule) ==
    contains(effects, rule.if_present) /\ ~contains(effects, rule.if_not_present)

\* effects.remove(rule.remove); effects.insert(rule.add).
rule_body(effects, rule) == (effects \ rule.remove) \cup rule.add

\* apply(substance, effects) is entered: let mut effects = effects.
ApplyCall(effects) ==
    /\ mix_pc = "ready"
    /\ mix_pc' = "rules"
    /\ mix_effects' = effects
    /\ mix_rule' = 0
    /\ mix_before' = effects
    /\ mix_fired' = FALSE
    /\ UNCHANGED <<replacements, inherent, mospVars, encVars, loadVars, graphVars, queryVars,
                   flatVars, packVars, frontVars>>

\* One pass of the for loop over the replacement rules.
RuleStep ==
    /\ mix_pc = "rules"
    /\ mix_rule < Len(replacements)
    /\ LET rule == replacements[mix_rule + 1] IN
       /\ mix_fired' = rule_condition(mix_effects, rule)
       /\ mix_effects' = IF rule_condition(mix_effects, rule)
                         THEN rule_body(mix_effects, rule)
                         ELSE mix_effects
    /\ mix_before' = mix_effects
    /\ mix_rule' = mix_rule + 1
    /\ UNCHANGED <<replacements, inherent, mix_pc, mospVars, encVars, loadVars, graphVars, queryVars,
                   flatVars, packVars, frontVars>>

\* After the loop: the inherent effects are inserted when fewer than
\* MAX_EFFECTS flags are set, and effects is returned.
ApplyReturn ==
    /\ mix_pc = "rules"
    /\ mix_rule = Len(replacements)
    /\ mix_effects' = IF Cardinality(mix_effects) < MAX_EFFECTS
                      THEN mix_effects \cup inherent
                      ELSE mix_effects
    /\ mix_pc' = "returned"
    /\ UNCHANGED <<replacements, inherent, mix_rule, mix_before, mix_fired,
                   mospVars, encVars, loadVars, graphVars, queryVars,
                   flatVars, packVars, frontVars>>

\* The rules of a rules file whose replace map has one entry, and among them
\* those of the shape "from is replaced by to unless to is present".
SingleReplaceRules ==
    {Rule(p, q, {f}, {t}) : p \in SUBSET AllEffects, q \in SUBSET AllEffects,
                            f \in AllEffects, t \in AllEffects}

ReplaceUnlessPresentRules ==
    {Rule({x[1]}, {x[2]}, {x[1]}, {x[2]}) :
        x \in {y \in AllEffects \X AllEffects : y[1] # y[2]}}

\* The rule lists of one substance: none, any one rule, or two rules of the
\* second shape.
RuleLists ==
    {<< >>} \cup {<<r>> : r \in SingleReplaceRules}
            \cup {<<r1, r2>> : r1 \in ReplaceUnlessPresentRules,
                               r2 \in ReplaceUnlessPresentRules}

\* The inherent effects of one substance (the effect list of its entry in the
\* rules file): none, one effect, or two effects outside AllEffects.
InherentChoices ==
    {{}} \cup {{e} : e \in AllEffects}
         \cup {{MAX_EFFECTS}, {MAX_EFFECTS - 1, MAX_EFFECTS}}

\* The effect sets apply is called with: every set over AllEffects, and sets
\* of MAX_EFFECTS - 1 and MAX_EFFECTS effects. None has more than
\* MAX_EFFECTS effects.
AppliedEffects ==
    (SUBSET AllEffects)
        \cup {0 .. (n - 1) : n \in (MAX_EFFECTS - 1) .. MAX_EFFECTS}
        \cup {1 .. MAX_EFFECTS}

InitMixing ==
    /\ replacements \in RuleLists
    /\ inherent \in InherentChoices
    /\ mix_pc = "ready"
    /\ mix_effects = {}
    /\ mix_rule = 0
    /\ mix_before = {}
    /\ mix_fired = FALSE
    /\ IdleMosp
    /\ IdleEncoder
    /\ IdleLoad
    /\ IdleGraph
    /\ IdleQuery
    /\ IdleFlat
    /\ IdlePacked
    /\ IdleFront

NextMixing ==
    \/ \E effects \in AppliedEffects : ApplyCall(effects)
    \/ RuleStep
    \/ ApplyReturn

SpecMixing == InitMixing /\ [][NextMixing]_vars

(***************************************************************************)
(* Claims about the rule application.                                      *)
(***************************************************************************)
\* C10: inside apply a rule fires on the current effects exactly when they
\* contain every effect of if_present and no effect of if_not_present, and
\* when it fires the effects become (effects minus remove) plus add.
C10_RuleFiresIff ==
    (mix_pc = "rules" /\ mix_rule >= 1) =>
        LET rule == replacements[mix_rule]
            fires == /\ rule.if_present \subseteq mix_before
                     /\ rule.if_not_present \cap mix_before = {}
        IN /\ mix_fired = fires
           /\ mix_effects = IF fires
                            THEN (mix_before \ rule.remove) \cup rule.add
                            ELSE mix_before

(***************************************************************************)
(* Loading the rules of one substance (parse_rules_file, mixing/mod.rs).   *)
(***************************************************************************)
\* The number of rules of one substance in a rules file of the model.
MaxRules == 3

\* MixtureRules::apply as a function of the rules of the substance, its
\* inherent effects and the effects it is applied to.
RECURSIVE apply_rules(_, _, _)
apply_rules(rs, effects, i) ==
    IF i > Len(rs)
    THEN effects
    ELSE apply_rules(rs,
                     IF rule_condition(effects, rs[i])
                     THEN rule_body(effects, rs[i])
                     ELSE effects,
                     i + 1)

apply(rs, inherent_of, effects) ==
    LET after_rules == apply_rules(rs, effects, 1)
    IN IF Cardinality(after_rules) < MAX_EFFECTS
       THEN after_rules \cup inherent_of
       ELSE after_rules

\* TopologicalSort::add_dependency(prec, succ) of the topological_sort
\* crate: succ joins the successors of prec and, unless the pair was
\* already registered, the number of predecessors of succ goes up by one.
add_dependency_reversed(t, prec, succ) ==
    IF succ \in DOMAIN t /\ prec \in t[succ].succ
    THEN t
    ELSE LET t1 == IF succ \in DOMAIN t
                   THEN [t EXCEPT ![succ].succ = @ \cup {prec}]
                   ELSE (succ :> [num_prec |-> 0, succ |-> {prec}]) @@ t
         IN IF prec \in DOMAIN t1
            THEN [t1 EXCEPT ![prec].num_prec = @ + 1]
            ELSE (prec :> [num_prec |-> 1, succ |-> {}]) @@ t1

add_dependency(t, prec, succ) ==
    IF prec \in DOMAIN t /\ succ \in t[prec].succ
    THEN t
    ELSE LET t1 == IF prec \in DOMAIN t
                   THEN [t EXCEPT ![prec].succ = @ \cup {succ}]
                   ELSE (prec :> [num_prec |-> 0, succ |-> {succ}]) @@ t
         IN IF succ \in DOMAIN t1
            THEN [t1 EXCEPT ![succ].num_prec = @ + 1]
            ELSE (succ :> [num_prec |-> 1, succ |-> {}]) @@ t1

\* for rule in rules.iter() { ts.add_dependency(rule.if_not_present,
\* rule.if_present) }, from rule i on.
RECURSIVE add_dependencies(_, _, _)
add_dependencies(t, rs, i) ==
    IF i > Len(rs)
    THEN t
    ELSE add_dependencies(
             add_dependency(t, rs[i].if_not_present, rs[i].if_present),
             rs, i + 1)

\* A variant that yields any element left, whatever its predecessors.
ts_peek_unordered(t) == DOMAIN t

\* What the iterator of the sort can yield next: an element without a
\* remaining predecessor. Which of them comes first is the iteration order
\* of a HashMap, so it is any of them.
ts_peek(t) == {e \in DOMAIN t : t[e].num_prec = 0}

\* The iterator removes the element it yields and releases its successors.
ts_remove(t, e) ==
    [x \in DOMAIN t \ {e} |->
        IF x \in t[e].succ THEN [t[x] EXCEPT !.num_prec = @ - 1] ELSE t[x]]

\* rules.iter().find(|r| r.if_present == effects): the position of the
\* first such rule, 0 when there is none.
rules_find(rs, effects) ==
    LET hits == {i \in 1 .. Len(rs) : rs[i].if_present = effects}
    IN IF hits = {} THEN 0 ELSE CHOOSE i \in hits : \A j \in hits : i <= j

\* One pass of for effects in ts: the sort yields effects, and the first
\* rule triggered by exactly these effects (if any) is pushed.
TsNext(effects) ==
    /\ load_pc = "sorting"
    /\ effects \in ts_peek(ts)
    /\ ts' = ts_remove(ts, effects)
    /\ new_order' = IF rules_find(rules, effects) # 0
                    THEN Append(new_order, rules[rules_find(rules, effects)])
                    ELSE new_order
    /\ UNCHANGED <<rules, load_pc, previous, mixVars, mospVars, encVars,
                   graphVars, queryVars,
                   flatVars, packVars, frontVars>>

\* The sort yields nothing more (it is empty, or what is left lies on a
\* cycle): *rules = new_order, and the table is returned. The variable rules
\* keeps the order of the file; replacements is the returned order.
TsEnd ==
    /\ load_pc = "sorting"
    /\ ts_peek(ts) = {}
    /\ replacements' = new_order
    /\ load_pc' = "loaded"
    /\ UNCHANGED <<rules, ts, new_order, previous, inherent, mix_pc,
                   mix_effects, mix_rule, mix_before, mix_fired, mospVars,
                   encVars, graphVars, queryVars,
                   flatVars, packVars, frontVars>>

\* The same file is loaded once more (another run of the program).
Reload ==
    /\ load_pc = "loaded"
    /\ previous = None
    /\ previous' = Some(replacements)
    /\ ts' = add_dependencies(<< >>, rules, 1)
    /\ new_order' = << >>
    /\ replacements' = << >>
    /\ load_pc' = "sorting"
    /\ UNCHANGED <<rules, inherent, mix_pc, mix_effects, mix_rule,
                   mix_before, mix_fired, mospVars, encVars, graphVars, queryVars,
                   flatVars, packVars, frontVars>>

\* The rules of one substance in a rules file: up to MaxRules rules of the
\* shape "from is replaced by to unless to is present", in any order.
RuleFiles ==
    UNION {[1 .. n -> ReplaceUnlessPresentRules] : n \in 0 .. MaxRules}

InitLoad ==
    /\ rules \in RuleFiles
    /\ ts = add_dependencies(<< >>, rules, 1)
    /\ new_order = << >>
    /\ load_pc = "sorting"
    /\ previous = None
    /\ replacements = << >>
    /\ inherent \in {{}} \cup {{e} : e \in AllEffects}
    /\ mix_pc = "idle"
    /\ mix_effects = {}
    /\ mix_rule = 0
    /\ mix_before = {}
    /\ mix_fired = FALSE
    /\ IdleMosp
    /\ IdleEncoder
    /\ IdleGraph
    /\ IdleQuery
    /\ IdleFlat
    /\ IdlePacked
    /\ IdleFront

NextLoad ==
    \/ \E effects \in SUBSET AllEffects : TsNext(effects)
    \/ TsEnd
    \/ Reload

SpecLoad == InitLoad /\ [][NextLoad]_vars

(***************************************************************************)
(* Claims about the loaded rules.                                          *)
(***************************************************************************)
\* The rule "from is replaced by to unless to is present".
Replace(from, to) == Rule({from}, {to}, {from}, {to})

\* The triples of distinct effects A, B, C, and the files whose rules are
\* A -> B and B -> C, in either order.
ChainTriples ==
    {x \in AllEffects \X AllEffects \X AllEffects :
        x[1] # x[2] /\ x[2] # x[3] /\ x[1] # x[3]}

IsChainFile(x) ==
    rules \in {<<Replace(x[1], x[2]), Replace(x[2], x[3])>>,
               <<Replace(x[2], x[3]), Replace(x[1], x[2])>>}

\* C11 as stated: when the rules of a substance are A -> B and B -> C, the
\* loaded rules applied to {A} cascade to {C} (with the inherent effects of
\* the substance) in one pass.
C11_CascadeInOnePass ==
    load_pc = "loaded" =>
        \A x \in ChainTriples :
            IsChainFile(x) =>
                apply(replacements, inherent, {x[1]}) = {x[3]} \cup inherent

\* C11, amended: the loaded order puts B -> C before A -> B, so each effect
\* is replaced once: {A} becomes {B}, and {A, B} becomes {B, C} (each with
\* the inherent effects of the substance).
C11_NoCascade ==
    load_pc = "loaded" =>
        \A x \in ChainTriples :
            IsChainFile(x) =>
                /\ apply(replacements, inherent, {x[1]}) = {x[2]} \cup inherent
                /\ apply(replacements, inherent, {x[1], x[2]})
                       = {x[2], x[3]} \cup inherent

C11_Witness ==
    /\ load_pc = "loaded"
    /\ rules = <<Replace(0, 1), Replace(1, 2)>>
    /\ replacements = <<Replace(1, 2), Replace(0, 1)>>
    /\ apply(replacements, inherent, {0}) = {1}

\* The dependency of the sort has a cycle: some rules of the file, taken
\* round, each have as if_present the if_not_present of the next.
HasCycle ==
    \E n \in 1 .. Len(rules) :
        \E c \in [1 .. n -> 1 .. Len(rules)] :
            \A j \in 1 .. n :
                rules[c[j]].if_present = rules[c[(j % n) + 1]].if_not_present

\* C12: when the rules of a substance form a cycle in the dependency
\* if_not_present -> if_present, loading fails: it never returns a rule
\* table (from which rules of that substance would be missing).
C12_CycleFailsLoading ==
    (load_pc = "loaded") => ~HasCycle

\* C13: two loads of the same rules file never disagree: whichever order the
\* sort emits unordered rules in, apply returns the same effects for every
\* effect set.
C13_LoadsAgree ==
    (load_pc = "loaded" /\ previous # None) =>
        \A effects \in SUBSET AllEffects :
            apply(previous[1], inherent, effects)
                = apply(replacements, inherent, effects)

\* C14: apply, called with at most MAX_EFFECTS effects (every set of
\* AppliedEffects is one), returns at most MAX_EFFECTS effects.
C14_ApplyKeepsAtMostK ==
    (mix_pc = "returned") => Cardinality(mix_effects) <= MAX_EFFECTS

(***************************************************************************)
(* Building the effect graph (EffectGraph::new, effect_graph/mod.rs).      *)
(***************************************************************************)
\* Effects::from_bits and Effects::bits: the flags of a bitset as a set, and
\* back.
from_bits(x) == {e \in 0 .. (N - 1) : TestBit(x, e)}

RECURSIVE bits(_)
bits(effects) ==
    IF effects = {}
    THEN 0
    ELSE LET e == CHOOSE x \in effects : TRUE
         IN Pow2(e) + bits(effects \ {e})

\* encoder.encode(rules.apply(substance, effects).bits()) for the effects of
\* node idx; Panic when the assert of encode fails.
new_idx_of(idx, s_idx) ==
    encode(bits(apply(replacement_rules[s_idx], inherent_effects[s_idx],
                      from_bits(decode(idx)))))

\* row[s_idx] = new_idx.
write_row_unless_self_loop(succ, idx, s_idx, new_idx) ==
    IF new_idx = idx THEN succ ELSE [succ EXCEPT ![idx][s_idx] = new_idx]

write_row(succ, idx, s_idx, new_idx) ==
    [succ EXCEPT ![idx][s_idx] = new_idx]

\* The inner loop of new for node idx, from substance s_idx on: the row entry
\* is written, then the backlink is added.
RECURSIVE substance_loop(_, _, _, _)
substance_loop(succ, preds, idx, s_idx) ==
    IF s_idx >= Cardinality(DOMAIN replacement_rules)
    THEN [successors |-> succ, predecessors |-> preds, panicked |-> FALSE]
    ELSE IF new_idx_of(idx, s_idx) = Panic
    THEN [successors |-> succ, predecessors |-> preds, panicked |-> TRUE]
    ELSE LET succ1 == write_row(succ, idx, s_idx, new_idx_of(idx, s_idx))
         IN substance_loop(succ1, AddBacklink(succ1, preds, idx, s_idx),
                           idx, s_idx + 1)

\* One pass of for idx in 0..n_combinations.
GraphRow ==
    /\ graph_pc = "building"
    /\ graph_idx < maximum_index
    /\ LET after == substance_loop(successors, predecessors, graph_idx, 0) IN
       /\ successors' = after.successors
       /\ predecessors' = after.predecessors
       /\ graph_pc' = IF after.panicked THEN "panicked" ELSE "building"
       /\ graph_idx' = IF after.panicked THEN graph_idx ELSE graph_idx + 1
    /\ UNCHANGED <<substance_costs, starting_node, permanent_labels, pending,
                   mosp_pc, dominates_logged, lookup_index, lookup_paths,
                   replacement_rules, inherent_effects, encVars, mixVars,
                   loadVars, queryVars,
                   flatVars, packVars, frontVars>>

\* The loop is over: Self { successors, predecessors, encoder }.
GraphReturn ==
    /\ graph_pc = "building"
    /\ graph_idx = maximum_index
    /\ graph_pc' = "built"
    /\ UNCHANGED <<mospVars, replacement_rules, inherent_effects, graph_idx,
                   encVars, mixVars, loadVars, queryVars,
                   flatVars, packVars, frontVars>>

\* The rule tables of the model. Over the EffectBits effects of AllEffects
\* (encoder <EffectBits, EffectBits>): per substance no rule or one
\* replacement rule, and no or one inherent effect. Over MAX_EFFECTS + 1
\* effects (encoder <MAX_EFFECTS + 1, MAX_EFFECTS>): no rule or the rule
\* 0 -> 1, and one or two inherent effects.
SmallTables ==
    [0 .. (NumSub - 1) ->
        [replacements : {<< >>} \cup {<<r>> : r \in ReplaceUnlessPresentRules},
         inherent : {{}} \cup {{e} : e \in AllEffects}]]

LargeTables ==
    [0 .. (NumSub - 1) ->
        [replacements : {<< >>, <<Replace(0, 1)>>},
         inherent : {{MAX_EFFECTS}, {MAX_EFFECTS - 1, MAX_EFFECTS}}]]

GraphInputs ==
    {[n |-> EffectBits, k |-> EffectBits, table |-> t] : t \in SmallTables}
        \cup {[n |-> MAX_EFFECTS + 1, k |-> MAX_EFFECTS, table |-> t] :
                 t \in LargeTables}

InitGraph ==
    /\ \E in \in GraphInputs :
          /\ N = in.n
          /\ MAX_K = in.k
          /\ binom = new_binom(in.n)
          /\ size_offsets = new_size_offsets(new_binom(in.n), in.n, in.k)
          /\ replacement_rules =
                 [s \in DOMAIN in.table |-> in.table[s].replacements]
          /\ inherent_effects =
                 [s \in DOMAIN in.table |-> in.table[s].inherent]
    /\ enc_op = "new"
    /\ enc_in = 0
    /\ enc_out = 0
    /\ successors = [n \in 0 .. (maximum_index - 1) |->
                        [s \in DOMAIN replacement_rules |-> 0]]
    /\ predecessors = [n \in 0 .. (maximum_index - 1) |-> << >>]
    /\ graph_pc = "building"
    /\ graph_idx = 0
    /\ substance_costs = << >>
    /\ starting_node = 0
    /\ permanent_labels = << >>
    /\ pending = << >>
    /\ mosp_pc = "idle"
    /\ dominates_logged = FALSE
    /\ lookup_index = -1
    /\ lookup_paths = << >>
    /\ IdleMixing
    /\ IdleLoad
    /\ IdleQuery
    /\ IdleFlat
    /\ IdlePacked
    /\ IdleFront

NextGraph ==
    \/ GraphRow
    \/ GraphReturn

SpecGraph == InitGraph /\ [][NextGraph]_vars

(***************************************************************************)
(* Claims about the effect graph.                                          *)
(***************************************************************************)
\* C15: after EffectGraph::new, for every node u and substance s,
\* successors(u)[s] is encode(apply(SUBSTANCES[s], decode(u))), and it is a
\* valid index in [0, M).
C15_SuccessorsAreApplied ==
    (graph_pc = "built") =>
        \A u \in 0 .. (maximum_index - 1) :
            \A s \in DOMAIN replacement_rules :
                /\ successors[u][s] = new_idx_of(u, s)
                /\ successors[u][s] \in 0 .. (maximum_index - 1)

\* A graph was built in which some edge is a self loop at a node other than
\* 0 and some edge leaves its node.
C15_Witness ==
    /\ graph_pc = "built"
    /\ \E u \in 1 .. (maximum_index - 1) :
           \E s \in DOMAIN replacement_rules : successors[u][s] = u
    /\ \E u \in 0 .. (maximum_index - 1) :
           \E s \in DOMAIN replacement_rules : successors[u][s] # u

\* C16: after EffectGraph::new, v is listed in predecessors(u) exactly when
\* v # u and some substance leads from v to u, and no predecessor is listed
\* twice, also when several substances lead from v to u.
C16_PredecessorsAreBacklinks ==
    (graph_pc = "built") =>
        \A u \in 0 .. (maximum_index - 1) :
            /\ \A v \in 0 .. (maximum_index - 1) :
                   (\E i \in 1 .. Len(predecessors[u]) : predecessors[u][i] = v)
                       <=> (v # u /\ \E s \in DOMAIN replacement_rules :
                                         successors[v][s] = u)
            /\ \A i, j \in 1 .. Len(predecessors[u]) :
                   i # j => predecessors[u][i] # predecessors[u][j]

\* A graph was built in which two substances lead from v to another node u,
\* and some node has a self loop.
C16_Witness ==
    /\ graph_pc = "built"
    /\ \E u, v \in 0 .. (maximum_index - 1) :
           /\ v # u
           /\ \E s1, s2 \in DOMAIN replacement_rules :
                  s1 # s2 /\ successors[v][s1] = u /\ successors[v][s2] = u
           /\ \E i \in 1 .. Len(predecessors[u]) : predecessors[u][i] = v
    /\ \E w \in 0 .. (maximum_index - 1) :
           \E s \in DOMAIN replacement_rules : successors[w][s] = w

(***************************************************************************)
(* Claims about the end of the search.                                     *)
(***************************************************************************)
\* The number of labels made permanent so far.
RECURSIVE LabelsUpTo(_)
LabelsUpTo(n) ==
    IF n < 0 THEN 0 ELSE Len(permanent_labels[n]) + LabelsUpTo(n - 1)

TotalLabels == LabelsUpTo(num_nodes - 1)

\* The first label of a node has the length of a shortest path, so a cost of
\* at most MaxCost * (NumNodes - 1), and every later label of the node has a
\* smaller cost: a node never has more labels than this.
NodeLabelBound == MaxCost * (NumNodes - 1) + 1

\* C17: the main loop ends: while it runs it can always take a step (pending
\* is empty and the search returns, or pop yields a label), every step that does not return
\* makes one more label permanent, and no node ever has more than
\* NodeLabelBound permanent labels; so pending is empty and the search
\* returns after at most NumNodes * NodeLabelBound iterations, and no node is
\* queued again forever.
C17_LoopTerminates ==
    /\ [](mosp_pc = "loop" =>
              /\ (DOMAIN pending = {} \/ PopChoices(pending) # {})
              /\ \A u \in Nodes : Len(permanent_labels[u]) <= NodeLabelBound)
    /\ [][mosp_pc = "loop" =>
              (\/ mosp_pc' = "returned" /\ DOMAIN pending = {}
               \/ TotalLabels' = TotalLabels + 1)]_vars

\* The search has returned on a graph with a cycle through the start node
\* and another node, after a node got a second label.
C17_Witness ==
    /\ mosp_pc = "returned"
    /\ \E s, t \in SubstanceIdx :
           /\ successors[starting_node][s] # starting_node
           /\ successors[successors[starting_node][s]][t] = starting_node
    /\ \E u \in Nodes : Len(permanent_labels[u]) >= 2

\* The nodes some walk from the start node ends at.
Reachable == {w[1] : w \in Walks}

\* C18: when the search has returned, the start node has exactly one label,
\* the source label (length 0, cost 0, no backlink), also when walks lead
\* back to the start; a node no walk reaches has no label, and every node
\* some walk reaches has one.
C18_StartAndReachability ==
    mosp_pc = "returned" =>
        /\ Len(permanent_labels[starting_node]) = 1
        /\ permanent_labels[starting_node][1].length = 0
        /\ permanent_labels[starting_node][1].cost = 0
        /\ permanent_labels[starting_node][1].backlink = NICHE
        /\ \A u \in Nodes :
               (u \in Reachable) <=> (permanent_labels[u] # << >>)

\* The search has returned on a graph in which a walk leads back to the
\* start node through another node, and a third node is not reached.
C18_Witness ==
    /\ mosp_pc = "returned"
    /\ \E s, t \in SubstanceIdx :
           /\ successors[starting_node][s] # starting_node
           /\ successors[successors[starting_node][s]][t] = starting_node
    /\ \E u \in Nodes : u \notin Reachable
    /\ \E u \in Reachable : u # starting_node /\ permanent_labels[u] # << >>

(***************************************************************************)
(* Queries over the label sets (bin.rs).                                   *)
(***************************************************************************)
\* The label sets the queries read are those of an encoder <QueryN, QueryN>;
\* a label has a length in 1 .. MaxLength and a cost in 1 .. MaxLabelCost; a
\* sell price is in 1 .. MaxPrice; the TopSet holds up to MaxResults entries.
QueryN == 2
MaxLength == 2
MaxLabelCost == 2
MaxPrice == 2
MaxResults == 2

\* One pass of the loop over the paths of idx in search_inexact:
\* get_or_insert, then the comparison. The variant replaces on equality too.
search_path_step_or_equal(acc, idx, path) ==
    LET lc0 == IF acc.lowest_cost = None THEN Some(<<idx, path>>)
               ELSE acc.lowest_cost
        sh0 == IF acc.shortest = None THEN Some(<<idx, path>>)
               ELSE acc.shortest
    IN [lowest_cost |-> IF path.cost <= lc0[1][2].cost
                        THEN Some(<<idx, path>>) ELSE lc0,
        shortest |-> IF path.length <= sh0[1][2].length
                     THEN Some(<<idx, path>>) ELSE sh0]

search_path_step(acc, idx, path) ==
    LET lc0 == IF acc.lowest_cost = None THEN Some(<<idx, path>>)
               ELSE acc.lowest_cost
        sh0 == IF acc.shortest = None THEN Some(<<idx, path>>)
               ELSE acc.shortest
    IN [lowest_cost |-> IF path.cost < lc0[1][2].cost
                        THEN Some(<<idx, path>>) ELSE lc0,
        shortest |-> IF path.length < sh0[1][2].length
                     THEN Some(<<idx, path>>) ELSE sh0]

\* for path in paths, from the i-th path on.
RECURSIVE search_paths(_, _, _, _)
search_paths(acc, idx, paths, i) ==
    IF i > Len(paths)
    THEN acc
    ELSE search_paths(search_path_step(acc, idx, paths[i]), idx, paths, i + 1)

\* for idx in 0..encoder.maximum_index(), from idx on: nodes without a label
\* and nodes whose effects do not contain the target are passed over.
RECURSIVE search_loop(_, _, _, _)
search_loop(target, labels, acc, idx) ==
    IF idx >= maximum_index
    THEN acc
    ELSE IF labels[idx] = << >>
    THEN search_loop(target, labels, acc, idx + 1)
    ELSE IF ~contains(from_bits(decode(idx)), target)
    THEN search_loop(target, labels, acc, idx + 1)
    ELSE search_loop(target, labels,
                     search_paths(acc, idx, labels[idx], 1), idx + 1)

\* search_inexact: None, or the pair of (index, label) of lowest cost and of
\* smallest length.
search_inexact(target, labels) ==
    LET acc == search_loop(target, labels,
                           [lowest_cost |-> None, shortest |-> None], 0)
    IN IF acc.lowest_cost = None
       THEN None
       ELSE Some(<<acc.lowest_cost[1], acc.shortest[1]>>)

SearchInexact(target) ==
    /\ query_pc = "ready"
    /\ query_pc' = "searched"
    /\ target_effects' = target
    /\ search_result' = search_inexact(target, permanent_labels)
    /\ UNCHANGED <<sell_prices, max_mixins, max_results, profit_results,
                   mospVars, encVars, mixVars, loadVars, graphVars,
                   flatVars, packVars, frontVars>>

\* .filter(|label| label.length <= max_mixins).min_by_key(|l| l.cost): the
\* first label of least cost among those short enough.
best_label(paths, mixins) ==
    LET short == {i \in 1 .. Len(paths) : paths[i].length <= mixins}
    IN IF short = {}
       THEN None
       ELSE Some(paths[CHOOSE i \in short :
                          \A j \in short :
                              \/ paths[i].cost < paths[j].cost
                              \/ paths[i].cost = paths[j].cost /\ i <= j])

\* PartialOrd::gt of the tuples (profit, sell_price, idx, label).
EntryGreater(a, b) ==
    \/ a[1] > b[1]
    \/ a[1] = b[1] /\ a[2] > b[2]
    \/ a[1] = b[1] /\ a[2] = b[2] /\ a[3] > b[3]
    \/ a[1] = b[1] /\ a[2] = b[2] /\ a[3] = b[3] /\ LabelLess(b[4], a[4])

\* The entry of a TopSet every other entry beats.
topset_lowest(top) ==
    CHOOSE l \in top : \A o \in top : o = l \/ EntryGreater(o, l)

\* TopSet::insert of the topset crate: the entry is added while there is
\* room; afterwards it replaces the lowest entry when it beats it. The
\* variant keeps the entries that came first.
topset_insert_while_room(top, capacity, x) ==
    IF Cardinality(top) < capacity THEN top \cup {x} ELSE top

topset_insert(top, capacity, x) ==
    IF Cardinality(top) < capacity
    THEN top \cup {x}
    ELSE IF EntryGreater(x, topset_lowest(top))
    THEN (top \ {topset_lowest(top)}) \cup {x}
    ELSE top

\* for idx in 0..encoder.maximum_index(), from idx on.
RECURSIVE profit_loop(_, _, _, _, _, _)
profit_loop(top, labels, prices, mixins, capacity, idx) ==
    IF idx >= maximum_index
    THEN top
    ELSE LET best == best_label(labels[idx], mixins) IN
         IF best = None
         THEN profit_loop(top, labels, prices, mixins, capacity, idx + 1)
         ELSE profit_loop(
                  topset_insert(top, capacity,
                                <<prices[idx] - best[1].cost, prices[idx],
                                  idx, best[1]>>),
                  labels, prices, mixins, capacity, idx + 1)

\* TopSet::into_sorted_vec: the entries from the lowest to the best.
RECURSIVE into_sorted_vec(_)
into_sorted_vec(top) ==
    IF top = {}
    THEN << >>
    ELSE <<topset_lowest(top)>> \o into_sorted_vec(top \ {topset_lowest(top)})

\* The body of Command::Profit for one base product: the entries in the order
\* they are printed.
Profit(prices, mixins, capacity) ==
    /\ query_pc = "ready"
    /\ query_pc' = "ranked"
    /\ sell_prices' = prices
    /\ max_mixins' = mixins
    /\ max_results' = capacity
    /\ profit_results' =
           ReverseSeq(into_sorted_vec(
               profit_loop({}, permanent_labels, prices, mixins, capacity, 0)))
    /\ UNCHANGED <<target_effects, search_result, mospVars, encVars, mixVars,
                   loadVars, graphVars,
                   flatVars, packVars, frontVars>>

\* The label sets of one node as the search leaves them: empty, one label, or
\* labels of growing length and falling cost.
QueryLabels ==
    {Label(l, c, 0, 0) : l \in 1 .. MaxLength, c \in 1 .. MaxLabelCost}

LabelSets ==
    {<< >>} \cup {<<a>> : a \in QueryLabels}
            \cup {<<x[1], x[2]>> :
                     x \in {y \in QueryLabels \X QueryLabels :
                               y[1].length < y[2].length /\ y[1].cost > y[2].cost}}

InitQuery ==
    /\ N = QueryN
    /\ MAX_K = QueryN
    /\ binom = new_binom(QueryN)
    /\ size_offsets = new_size_offsets(new_binom(QueryN), QueryN, QueryN)
    /\ enc_op = "new"
    /\ enc_in = 0
    /\ enc_out = 0
    /\ permanent_labels \in [0 .. (maximum_index - 1) -> LabelSets]
    /\ successors = << >>
    /\ predecessors = << >>
    /\ substance_costs = << >>
    /\ starting_node = 0
    /\ pending = << >>
    /\ mosp_pc = "idle"
    /\ dominates_logged = FALSE
    /\ lookup_index = -1
    /\ lookup_paths = << >>
    /\ query_pc = "ready"
    /\ target_effects = {}
    /\ search_result = << >>
    /\ sell_prices = << >>
    /\ max_mixins = 0
    /\ max_results = 0
    /\ profit_results = << >>
    /\ IdleMixing
    /\ IdleLoad
    /\ IdleGraph
    /\ IdleFlat
    /\ IdlePacked
    /\ IdleFront

NextQuery ==
    \/ \E target \in SUBSET (0 .. (QueryN - 1)) : SearchInexact(target)
    \/ \E prices \in [0 .. (maximum_index - 1) -> 1 .. MaxPrice],
          mixins \in 0 .. MaxLength, capacity \in 1 .. MaxResults :
          Profit(prices, mixins, capacity)

SpecQuery == InitQuery /\ [][NextQuery]_vars

(***************************************************************************)
(* Claims about the queries.                                               *)
(***************************************************************************)
\* The nodes that have a label and whose effects contain the target.
Matching ==
    {u \in 0 .. (maximum_index - 1) :
        /\ permanent_labels[u] # << >>
        /\ target_effects \subseteq from_bits(decode(u))}

\* C19: search_inexact returns none exactly when no node has a label and
\* effects that contain the target; otherwise the lowest-cost label it
\* returns costs no more than any label of any such node, the shortest label
\* it returns is no longer than any label of any such node, and each is the
\* first label to reach its minimum in increasing index order (and in the
\* order of the labels of its node).
C19_SearchInexact ==
    (query_pc = "searched") =>
        /\ (search_result = None) <=> (Matching = {})
        /\ (search_result # None) =>
               LET lc == search_result[1][1]
                   sh == search_result[1][2]
               IN /\ lc[1] \in Matching /\ sh[1] \in Matching
                  /\ \E i \in 1 .. Len(permanent_labels[lc[1]]) :
                         /\ permanent_labels[lc[1]][i] = lc[2]
                         /\ \A j \in 1 .. (i - 1) :
                                permanent_labels[lc[1]][j].cost > lc[2].cost
                  /\ \E i \in 1 .. Len(permanent_labels[sh[1]]) :
                         /\ permanent_labels[sh[1]][i] = sh[2]
                         /\ \A j \in 1 .. (i - 1) :
                                permanent_labels[sh[1]][j].length > sh[2].length
                  /\ \A u \in Matching :
                         \A i \in 1 .. Len(permanent_labels[u]) :
                             /\ lc[2].cost <= permanent_labels[u][i].cost
                             /\ sh[2].length <= permanent_labels[u][i].length
                             /\ u < lc[1] =>
                                    lc[2].cost < permanent_labels[u][i].cost
                             /\ u < sh[1] =>
                                    sh[2].length < permanent_labels[u][i].length

\* A search whose two answers are at different nodes, while a later node has
\* a label as cheap as the cheapest and a labelled node does not match.
C19_Witness ==
    /\ query_pc = "searched"
    /\ search_result # None
    /\ search_result[1][1][1] # search_result[1][2][1]
    /\ \E u \in Matching :
           /\ u > search_result[1][1][1]
           /\ \E i \in 1 .. Len(permanent_labels[u]) :
                  permanent_labels[u][i].cost = search_result[1][1][2].cost
    /\ \E u \in 0 .. (maximum_index - 1) :
           permanent_labels[u] # << >> /\ u \notin Matching

\* The nodes with a label of at most max_mixins substances, the least cost of
\* those labels, and the profit of the node.
Eligible ==
    {u \in 0 .. (maximum_index - 1) :
        \E i \in 1 .. Len(permanent_labels[u]) :
            permanent_labels[u][i].length <= max_mixins}

MinCost(u) ==
    CHOOSE c \in 0 .. MaxLabelCost :
        /\ \E i \in 1 .. Len(permanent_labels[u]) :
               /\ permanent_labels[u][i].length <= max_mixins
               /\ permanent_labels[u][i].cost = c
        /\ \A i \in 1 .. Len(permanent_labels[u]) :
               permanent_labels[u][i].length <= max_mixins
                   => c <= permanent_labels[u][i].cost

ProfitOf(u) == sell_prices[u] - MinCost(u)

\* C20: the profit ranking emits min(max_results, number of eligible nodes)
\* entries, each for another eligible node, with the least-cost label of at
\* most max_mixins substances of that node and profit = sell_price - cost, in
\* descending profit, and no eligible node left out has a greater profit
\* than an emitted one.
C20_ProfitRanking ==
    (query_pc = "ranked") =>
        /\ Len(profit_results) =
               IF max_results < Cardinality(Eligible)
               THEN max_results ELSE Cardinality(Eligible)
        /\ \A i \in 1 .. Len(profit_results) :
               LET e == profit_results[i] IN
               /\ e[3] \in Eligible
               /\ e[2] = sell_prices[e[3]]
               /\ e[4].length <= max_mixins
               /\ e[4].cost = MinCost(e[3])
               /\ \E k \in 1 .. Len(permanent_labels[e[3]]) :
                      permanent_labels[e[3]][k] = e[4]
               /\ e[1] = ProfitOf(e[3])
               /\ \A j \in 1 .. Len(profit_results) :
                      /\ i < j => e[1] >= profit_results[j][1]
                      /\ i # j => e[3] # profit_results[j][3]
               /\ \A u \in Eligible :
                      (\A j \in 1 .. Len(profit_results) :
                           profit_results[j][3] # u)
                          => ProfitOf(u) <= e[1]

\* A ranking that fills the TopSet and leaves out an eligible node, over
\* labels of which one is too long and one is not the cheapest of its node.
C20_Witness ==
    /\ query_pc = "ranked"
    /\ Len(profit_results) = max_results
    /\ max_results >= 2
    /\ profit_results[1][1] > profit_results[2][1]
    /\ \E u \in Eligible :
           \A j \in 1 .. Len(profit_results) : profit_results[j][3] # u
    /\ \E u \in 0 .. (maximum_index - 1) :
           permanent_labels[u] # << >> /\ u \notin Eligible
    /\ \E i \in 1 .. Len(profit_results) :
           Len(permanent_labels[profit_results[i][3]]) = 2

(***************************************************************************)
(* Claims about the order and the number of the loaded rules.              *)
(***************************************************************************)
\* C28: in the loaded order a rule whose if_present equals the
\* if_not_present of another rule comes before that rule; and for the rules
\* A -> B (unless B) and B -> C (unless C), apply on {A, B} yields {B, C}
\* (with the inherent effects of the substance).
C28_TriggerBeforeGuard ==
    load_pc = "loaded" =>
        /\ \A i, j \in 1 .. Len(replacements) :
               (i # j /\ replacements[i].if_present
                             = replacements[j].if_not_present) => i < j
        /\ \A x \in ChainTriples :
               IsChainFile(x) =>
                   apply(replacements, inherent, {x[1], x[2]})
                       = {x[2], x[3]} \cup inherent

\* A file whose first rule is guarded by the trigger of its second rule was
\* loaded whole, and the two rules changed places.
C28_Witness ==
    /\ load_pc = "loaded"
    /\ Len(rules) = 2
    /\ rules[1].if_not_present = rules[2].if_present
    /\ replacements = <<rules[2], rules[1]>>

\* C29: when the dependency of the rules of a substance has no cycle, the
\* loaded rules are a permutation of the declared ones: every declared rule
\* is kept exactly once, also rules that share their if_present.
C29_LoadedIsPermutation ==
    (load_pc = "loaded" /\ ~HasCycle) =>
        /\ Len(replacements) = Len(rules)
        /\ \E f \in [1 .. Len(rules) -> 1 .. Len(rules)] :
               /\ \A i, j \in 1 .. Len(rules) : i # j => f[i] # f[j]
               /\ \A i \in 1 .. Len(rules) : replacements[i] = rules[f[i]]

(***************************************************************************)
(* Claims about the labels of the search.                                  *)
(***************************************************************************)
\* C24: every permanent label L of a node u that has a backlink names a node
\* v = L.backlink with successors(v)[L.previous_substance] = u, and
\* permanent[v] holds a label of length L.length - 1 and of cost L.cost minus
\* the cost of L.previous_substance; for labels of the backfill as for those
\* of the forward propagation.
C24_BacklinksLeadBack ==
    \A u \in Nodes : \A i \in 1 .. Len(permanent_labels[u]) :
        LET L == permanent_labels[u][i] IN
        HasBacklink(L) =>
            /\ L.backlink \in Nodes
            /\ successors[L.backlink][L.previous_substance] = u
            /\ \E k \in 1 .. Len(permanent_labels[L.backlink]) :
                   LET P == permanent_labels[L.backlink][k] IN
                   /\ P.length = L.length - 1
                   /\ P.cost = L.cost - substance_costs[L.previous_substance]

\* C25: in no run of the search is label_nondominated_nonequal called with a
\* label that dominates a permanent label it is compared with: the message
\* "new label dominates existing labels!" is never printed.
C25_NeverDominatesExisting ==
    ~dominates_logged

\* Lexicographic order of labels by length, then cost.
LengthCostLeq(a, b) ==
    \/ a.length < b.length
    \/ a.length = b.length /\ a.cost <= b.cost

\* C26: the labels are popped in non-decreasing order (length, then cost)
\* over the whole run: the label a step makes permanent is not smaller than
\* any label made permanent before; so every permanent[u] is sorted in
\* non-decreasing order in its insertion order.
C26_PoppedInOrder ==
    /\ [](\A u \in Nodes : \A i, j \in 1 .. Len(permanent_labels[u]) :
              i < j => LengthCostLeq(permanent_labels[u][i],
                                      permanent_labels[u][j]))
    /\ [][\A u \in Nodes :
              Len(permanent_labels'[u]) > Len(permanent_labels[u]) =>
                  \A v \in Nodes : \A i \in 1 .. Len(permanent_labels[v]) :
                      LengthCostLeq(permanent_labels[v][i],
                                    permanent_labels'[u][Len(permanent_labels'[u])])]_vars

\* The search has returned after a node got a second label by the backfill
\* (its backlink is not a node a forward label would name, or it is).
C26_Witness ==
    /\ mosp_pc = "returned"
    /\ \E u \in Nodes : Len(permanent_labels[u]) >= 2
    /\ \E u, v \in Nodes :
           /\ u # v
           /\ permanent_labels[u] # << >>
           /\ permanent_labels[v] # << >>
           /\ permanent_labels[u][Len(permanent_labels[u])].length
                  < permanent_labels[v][Len(permanent_labels[v])].length

\* C27: predecessors_with_substances(u) yields one pair (v, s) for each v of
\* predecessors(u), in their order, with s the lowest index such that
\* successors(v)[s] = u; the search for the index never fails.
C27_FirstSubstance ==
    \A u \in Nodes :
        LET ps == predecessors_with_substances(u) IN
        /\ Len(ps) = Len(predecessors[u])
        /\ \A i \in 1 .. Len(ps) :
               /\ ps[i][1] = predecessors[u][i]
               /\ ps[i][2] \in SubstanceIdx
               /\ successors[ps[i][1]][ps[i][2]] = u
               /\ \A t \in SubstanceIdx :
                      t < ps[i][2] => successors[ps[i][1]][t] # u

\* A node with two predecessors, one of which reaches it by every substance.
C27_Witness ==
    \E u \in Nodes :
        /\ Len(predecessors[u]) = 2
        /\ \E i \in 1 .. 2 :
               \A s \in SubstanceIdx : successors[predecessors[u][i]][s] = u

\* The search has returned with a label made by the backfill (it names its
\* own node as backlink though the node has no self loop) and, at a node
\* with two labels, a label made by the forward propagation.
C25_Witness ==
    /\ mosp_pc = "returned"
    /\ ~dominates_logged
    /\ \E u \in Nodes :
           /\ \A s \in SubstanceIdx : successors[u][s] # u
           /\ \E i \in 1 .. Len(permanent_labels[u]) :
                  permanent_labels[u][i].backlink = u
    /\ \E u \in Nodes :
           /\ Len(permanent_labels[u]) >= 2
           /\ \E i \in 1 .. Len(permanent_labels[u]) :
                  /\ HasBacklink(permanent_labels[u][i])
                  /\ permanent_labels[u][i].backlink # u


(***************************************************************************)
(* FlatStorage (flat_storage/mod.rs): a ragged Vec<Vec<T>> flattened into  *)
(* one vector of elements and one vector of offsets.                       *)
(***************************************************************************)
\* At most MaxRows rows of at most MaxRowLen elements each.
MaxRows == 3
MaxRowLen == 2

\* The values of T.
FlatElems == 0 .. 1

\* The for loop of from over (idx, path) in ragged.into_iter().enumerate();
\* i is idx.  offsets[idx] + path.len() as u32 is u32 arithmetic: the rows
\* here hold far fewer than 2^32 elements, so the sum is never reduced.
RECURSIVE from_loop(_, _, _, _)
from_loop(rows, i, ps, offs) ==
    IF i >= Len(rows) THEN [paths |-> ps, offsets |-> offs]
    ELSE from_loop(rows, i + 1, ps \o rows[i + 1],
                   ((i + 1) :> (offs[i] + Len(rows[i + 1]))) @@ offs)

\* FlatStorage::from: offsets = vec![0u32; num_elem + 1], then the loop.
FlatStorage_from(rows) ==
    from_loop(rows, 0, << >>, [k \in 0 .. Len(rows) |-> 0])

\* A get whose slice ends at length and not at offset + length.
flat_get_to_length(ps, offs, i) ==
    LET offset == offs[i]
        length == offs[i + 1] - offset
    IN  SubSeq(ps, offset + 1, length)

\* FlatStorage::get: &self.paths[offset..offset + length].
flat_get(ps, offs, i) ==
    LET offset == offs[i]
        length == offs[i + 1] - offset
    IN  SubSeq(ps, offset + 1, offset + length)

\* FlatStorage::from(ragged).
FlatFrom ==
    /\ flat_pc = "input"
    /\ LET fs == FlatStorage_from(ragged)
       IN  /\ flat_paths' = fs.paths
           /\ flat_offsets' = fs.offsets
    /\ flat_pc' = "built"
    /\ UNCHANGED <<ragged, flat_idx, flat_row>>
    /\ UNCHANGED <<mospVars, encVars, mixVars, loadVars, graphVars, queryVars,
                   packVars, frontVars>>

\* get(i): self.offsets[idx + 1] panics when idx + 1 is out of bounds.
FlatGet(i) ==
    /\ flat_pc \in {"built", "read"}
    /\ flat_idx' = i
    /\ IF (i + 1) \in DOMAIN flat_offsets
       THEN /\ flat_row' = flat_get(flat_paths, flat_offsets, i)
            /\ flat_pc' = "read"
       ELSE /\ flat_row' = << >>
            /\ flat_pc' = "panicked"
    /\ UNCHANGED <<ragged, flat_paths, flat_offsets>>
    /\ UNCHANGED <<mospVars, encVars, mixVars, loadVars, graphVars, queryVars,
                   packVars, frontVars>>

\* Every row of at most MaxRowLen elements.
FlatRows == UNION {[1 .. m -> FlatElems] : m \in 0 .. MaxRowLen}

\* Every ragged input of at most MaxRows rows.
RaggedInputs == UNION {[1 .. n -> FlatRows] : n \in 0 .. MaxRows}

InitFlat ==
    /\ ragged \in RaggedInputs
    /\ flat_paths = << >>
    /\ flat_offsets = << >>
    /\ flat_pc = "input"
    /\ flat_idx = 0
    /\ flat_row = << >>
    /\ IdleMosp
    /\ IdleEncoder
    /\ IdleMixing
    /\ IdleLoad
    /\ IdleGraph
    /\ IdleQuery
    /\ IdlePacked
    /\ IdleFront

NextFlat ==
    \/ FlatFrom
    \/ \E i \in 0 .. MaxRows : FlatGet(i)

SpecFlat == InitFlat /\ [][NextFlat]_vars

\* C21: for every ragged input of L rows, the storage built from it has
\* L + 1 offsets that start at 0 and never decrease, get(i) returns exactly
\* row i for every i in [0, L), and a get that was made returned that row.
C21_FlatRoundTrip ==
    flat_pc \in {"built", "read"} =>
        /\ DOMAIN flat_offsets = 0 .. Len(ragged)
        /\ flat_offsets[0] = 0
        /\ \A i \in 0 .. (Len(ragged) - 1) :
              /\ flat_offsets[i] <= flat_offsets[i + 1]
              /\ flat_get(flat_paths, flat_offsets, i) = ragged[i + 1]
        /\ flat_pc = "read" => flat_row = ragged[flat_idx + 1]

\* The last row of three was read back, after an empty row in the middle.
C21_Witness ==
    /\ flat_pc = "read"
    /\ Len(ragged) = 3
    /\ ragged[1] # << >>
    /\ ragged[2] = << >>
    /\ Len(ragged[3]) = MaxRowLen
    /\ flat_idx = 2
    /\ flat_row = ragged[3]


(***************************************************************************)
(* PackedValues (packing/mod.rs): up to MAX_ENTRIES values of              *)
(* BITS_PER_ENTRY bits each in one unsigned integer, with a count.         *)
(***************************************************************************)
\* PackedValues<Substance, 4> (search/mod.rs).
BITS_PER_ENTRY == 4

\* The width of data: u128 in the source, DataBits bits here, so that a full
\* container holds DataBits / BITS_PER_ENTRY entries.
DataBits == 16

DataModulus == Pow2(DataBits)

MAX_ENTRIES == DataBits \div BITS_PER_ENTRY

ENTRY_MASK == Pow2(BITS_PER_ENTRY) - 1

\* The operators &, |, !, << and >> on data.
RECURSIVE BitAnd(_, _)
BitAnd(a, b) ==
    IF a = 0 \/ b = 0 THEN 0
    ELSE (a % 2) * (b % 2) + 2 * BitAnd(a \div 2, b \div 2)

RECURSIVE BitOr(_, _)
BitOr(a, b) ==
    IF a = 0 THEN b
    ELSE IF b = 0 THEN a
    ELSE (IF a % 2 = 1 \/ b % 2 = 1 THEN 1 ELSE 0)
         + 2 * BitOr(a \div 2, b \div 2)

BitNot(a) == DataModulus - 1 - a

Shl(a, n) == (a * Pow2(n)) % DataModulus

Shr(a, n) == a \div Pow2(n)

\* The values of T as u8 that the calls are made with: the least, one in
\* between and the greatest that fits an entry.
PackedInputs == {0, 1, ENTRY_MASK}

\* What a call leaves and returns: ok is Ok or Some, out the value.
PackedOutcome(d, c, ok, out) == [data |-> d, count |-> c, ok |-> ok, out |-> out]

\* A push that does not clear the bits at the position first.
push_without_clearing(d, c, v) ==
    IF c >= MAX_ENTRIES THEN PackedOutcome(d, c, FALSE, 0)
    ELSE LET position == c * BITS_PER_ENTRY
         IN  PackedOutcome(BitOr(d, Shl(v, position)), c + 1, TRUE, 0)

\* PackedValues::push.
push(d, c, v) ==
    IF c >= MAX_ENTRIES THEN PackedOutcome(d, c, FALSE, 0)
    ELSE LET position == c * BITS_PER_ENTRY
             cleared == BitAnd(d, BitNot(Shl(ENTRY_MASK, position)))
         IN  PackedOutcome(BitOr(cleared, Shl(v, position)), c + 1, TRUE, 0)

\* PackedValues::get.
get(d, c, i) ==
    IF i >= c THEN PackedOutcome(d, c, FALSE, 0)
    ELSE LET position == i * BITS_PER_ENTRY
         IN  PackedOutcome(d, c, TRUE, BitAnd(Shr(d, position), ENTRY_MASK))

\* PackedValues::set.
set(d, c, i, v) ==
    IF i >= c THEN PackedOutcome(d, c, FALSE, 0)
    ELSE LET position == i * BITS_PER_ENTRY
             cleared == BitAnd(d, BitNot(Shl(ENTRY_MASK, position)))
         IN  PackedOutcome(BitOr(cleared, Shl(v, position)), c, TRUE, 0)

\* PackedValues::len.
len(d, c) == PackedOutcome(d, c, TRUE, c)

\* PackedValues::clear.
clear(d, c) == PackedOutcome(0, 0, TRUE, 0)

\* PackedValues::pop: the count goes down, data is left as it is.
pop(d, c) ==
    IF c = 0 THEN PackedOutcome(d, c, FALSE, 0)
    ELSE LET position == (c - 1) * BITS_PER_ENTRY
         IN  PackedOutcome(d, c - 1, TRUE, BitAnd(Shr(d, position), ENTRY_MASK))

\* PackedIterator::next until it returns None: get(current) for every
\* current below the count of the copy.
RECURSIVE iter_loop(_, _, _, _)
iter_loop(d, c, current, acc) ==
    IF current >= c THEN acc
    ELSE iter_loop(d, c, current + 1, Append(acc, get(d, c, current).out))

iter(d, c) == PackedOutcome(d, c, TRUE, iter_loop(d, c, 0, << >>))

\* The derived PartialEq of the struct: data and count are compared.
PackedEq(a, b) == a.data = b.data /\ a.count = b.count

\* One call: the fields take what the call leaves, packed_op what was
\* called and returned.
PackedCall(name, i, v, outcome) ==
    /\ data' = outcome.data
    /\ count' = outcome.count
    /\ packed_op' = [name |-> name, index |-> i, value |-> v,
                     ok |-> outcome.ok, out |-> outcome.out]
    /\ UNCHANGED <<mospVars, encVars, mixVars, loadVars, graphVars, queryVars,
                   flatVars, frontVars>>

PackedPush(v) == PackedCall("push", 0, v, push(data, count, v))

PackedPop == PackedCall("pop", 0, 0, pop(data, count))

PackedGet(i) == PackedCall("get", i, 0, get(data, count, i))

PackedSet(i, v) == PackedCall("set", i, v, set(data, count, i, v))

PackedLen == PackedCall("len", 0, 0, len(data, count))

PackedClear == PackedCall("clear", 0, 0, clear(data, count))

PackedIter == PackedCall("iter", 0, 0, iter(data, count))

\* PackedValues::new().
InitPacked ==
    /\ data = 0
    /\ count = 0
    /\ packed_op = [name |-> "new", index |-> 0, value |-> 0,
                    ok |-> TRUE, out |-> 0]
    /\ IdleMosp
    /\ IdleEncoder
    /\ IdleMixing
    /\ IdleLoad
    /\ IdleGraph
    /\ IdleQuery
    /\ IdleFlat
    /\ IdleFront

NextPacked ==
    \/ \E v \in PackedInputs : PackedPush(v)
    \/ PackedPop
    \/ \E i \in 0 .. MAX_ENTRIES : PackedGet(i)
    \/ \E i \in 0 .. MAX_ENTRIES, v \in PackedInputs : PackedSet(i, v)
    \/ PackedLen
    \/ PackedClear
    \/ PackedIter

SpecPacked == InitPacked /\ [][NextPacked]_vars

\* The list a container stands for: the values below its count.
Entries(d, c) == [k \in 1 .. c |-> BitAnd(Shr(d, (k - 1) * BITS_PER_ENTRY), ENTRY_MASK)]

ListExcept(l, k, v) == [l EXCEPT ![k] = v]

ListFront(l) == SubSeq(l, 1, Len(l) - 1)

\* C22: every call returns what the same call on a list bounded by
\* MAX_ENTRIES returns and leaves the list that call leaves: push appends, or
\* on a full container fails and changes nothing; pop removes and returns the
\* last entry; get(i) and the iteration return the entries; set(i, v) below
\* the length changes entry i only, and at or above it fails and changes
\* nothing; len is the length and clear empties.
C22_BehavesAsBoundedList ==
    [][LET op == packed_op'
           before == Entries(data, count)
           after == Entries(data', count')
       IN  /\ Len(after) <= MAX_ENTRIES
           /\ op.name = "push" =>
                 IF Len(before) < MAX_ENTRIES
                 THEN op.ok /\ after = Append(before, op.value)
                 ELSE ~op.ok /\ after = before
           /\ op.name = "pop" =>
                 IF before # << >>
                 THEN /\ op.ok
                      /\ op.out = before[Len(before)]
                      /\ after = ListFront(before)
                 ELSE ~op.ok /\ after = before
           /\ op.name = "get" =>
                 /\ after = before
                 /\ IF op.index < Len(before)
                    THEN op.ok /\ op.out = before[op.index + 1]
                    ELSE ~op.ok
           /\ op.name = "set" =>
                 IF op.index < Len(before)
                 THEN op.ok /\ after = ListExcept(before, op.index + 1, op.value)
                 ELSE ~op.ok /\ after = before
           /\ op.name = "len" => after = before /\ op.out = Len(before)
           /\ op.name = "clear" => after = << >>
           /\ op.name = "iter" => after = before /\ op.out = before
      ]_vars

\* A push on a full container of four different-looking entries failed.
C22_Witness ==
    /\ packed_op.name = "push"
    /\ ~packed_op.ok
    /\ count = MAX_ENTRIES
    /\ Entries(data, count) = <<ENTRY_MASK, 0, 1, ENTRY_MASK>>


\* The container that new() and one push per entry of l give.
RECURSIVE PackedOf(_)
PackedOf(l) ==
    IF l = << >> THEN PackedOutcome(0, 0, TRUE, 0)
    ELSE LET front == PackedOf(ListFront(l))
         IN  push(front.data, front.count, l[Len(l)])

\* C30: a container compares equal (derived ==) to every container that
\* holds the same entries, whatever calls produced it: here to the one that
\* new() and a push of each of its entries give, which for a container
\* emptied by pop is the fresh empty container.
C30_SameEntriesCompareEqual ==
    PackedEq([data |-> data, count |-> count],
             PackedOf(Entries(data, count)))


(***************************************************************************)
(* ParetoFront (search/pareto.rs): the items no other item dominates, both *)
(* objectives being minimised.                                             *)
(***************************************************************************)
\* Objectives range over 0 .. MaxObjective.
MaxObjective == 2

\* The items add is called with: data is a pair and the key functions are
\* its two components.
FrontData == (0 .. MaxObjective) \X (0 .. MaxObjective)

key_fn1(d) == d[1]

key_fn2(d) == d[2]

\* ParetoItem::new.
ParetoItem(d, objective1, objective2) ==
    [data |-> d, objective1 |-> objective1, objective2 |-> objective2]

\* A comparison that takes equal objectives for non-dominated ones.
compare_raw_equal_apart(obj1_a, obj1_b, obj2_a, obj2_b) ==
    IF (obj1_a < obj2_a /\ obj1_b <= obj2_b) \/ (obj1_a = obj2_a /\ obj1_b < obj2_b)
    THEN "FirstDominates"
    ELSE IF (obj1_a > obj2_a /\ obj1_b >= obj2_b) \/ (obj1_a = obj2_a /\ obj1_b > obj2_b)
    THEN "SecondDominates"
    ELSE "NonDominated"

\* ParetoItem::compare_raw: the match on the two orderings, arm by arm.
compare_raw(obj1_a, obj1_b, obj2_a, obj2_b) ==
    IF (obj1_a < obj2_a /\ obj1_b <= obj2_b) \/ (obj1_a = obj2_a /\ obj1_b < obj2_b)
    THEN "FirstDominates"
    ELSE IF (obj1_a > obj2_a /\ obj1_b >= obj2_b) \/ (obj1_a = obj2_a /\ obj1_b > obj2_b)
    THEN "SecondDominates"
    ELSE IF obj1_a = obj2_a /\ obj1_b = obj2_b
    THEN "Equal"
    ELSE "NonDominated"

\* ParetoItem::compare.
compare(item, other) ==
    compare_raw(item.objective1, item.objective2,
                other.objective1, other.objective2)

\* The for loop of add over self.items.iter().enumerate(), from index i on:
\* it returns early when an item dominates or equals the new one.
RECURSIVE add_scan(_, _, _, _)
add_scan(its, new_item, i, dominated_indices) ==
    IF i >= Len(its)
    THEN [rejected |-> FALSE, dominated_indices |-> dominated_indices]
    ELSE LET r == compare(its[i + 1], new_item)
         IN  IF r \in {"FirstDominates", "Equal"}
             THEN [rejected |-> TRUE, dominated_indices |-> dominated_indices]
             ELSE IF r = "SecondDominates"
             THEN add_scan(its, new_item, i + 1, Append(dominated_indices, i))
             ELSE add_scan(its, new_item, i + 1, dominated_indices)

\* sort_unstable on the indices: ascending.
RECURSIVE sort_unstable(_)
sort_unstable(s) ==
    IF s = << >> THEN << >>
    ELSE LET least == CHOOSE k \in 1 .. Len(s) : \A j \in 1 .. Len(s) : s[k] <= s[j]
         IN  <<s[least]>> \o sort_unstable(SubSeq(s, 1, least - 1)
                                           \o SubSeq(s, least + 1, Len(s)))

\* Vec::swap_remove(i): the last element takes the place of element i.
swap_remove(its, i) ==
    [j \in 1 .. (Len(its) - 1) |-> IF j = i + 1 THEN its[Len(its)] ELSE its[j]]

\* for idx in dominated_indices.into_iter().rev(): k indices are left.
RECURSIVE remove_loop(_, _, _)
remove_loop(its, indices, k) ==
    IF k = 0 THEN its
    ELSE remove_loop(swap_remove(its, indices[k]), indices, k - 1)

\* ParetoFront::add: the items it leaves and the bool it returns.
front_add(its, d) ==
    LET new_item == ParetoItem(d, key_fn1(d), key_fn2(d))
    IN  IF its = << >>
        THEN [items |-> <<new_item>>, result |-> TRUE]
        ELSE LET scan == add_scan(its, new_item, 0, << >>)
                 sorted == sort_unstable(scan.dominated_indices)
             IN  IF scan.rejected
                 THEN [items |-> its, result |-> FALSE]
                 ELSE [items |-> Append(remove_loop(its, sorted, Len(sorted)),
                                        new_item),
                       result |-> TRUE]

\* front.add(d).
FrontAdd(d) ==
    /\ LET r == front_add(items, d)
       IN  /\ items' = r.items
           /\ front_op' = [name |-> "add", data |-> d, result |-> r.result]
    /\ front_added' = front_added \cup {d}
    /\ UNCHANGED <<mospVars, encVars, mixVars, loadVars, graphVars, queryVars,
                   flatVars, packVars>>

\* ParetoFront::new.
InitFront ==
    /\ items = << >>
    /\ front_added = {}
    /\ front_op = [name |-> "new", data |-> <<0, 0>>, result |-> TRUE]
    /\ IdleMosp
    /\ IdleEncoder
    /\ IdleMixing
    /\ IdleLoad
    /\ IdleGraph
    /\ IdleQuery
    /\ IdleFlat
    /\ IdlePacked

NextFront == \E d \in FrontData : FrontAdd(d)

SpecFront == InitFront /\ [][NextFront]_vars

\* Domination between two pairs of objectives: no worse in both, not equal.
PairDominates(p, q) == p[1] <= q[1] /\ p[2] <= q[2] /\ p # q

HeldPairs(its) == {<<its[k].objective1, its[k].objective2>> : k \in 1 .. Len(its)}

ParetoMinimal(S) == {p \in S : ~ \E q \in S : PairDominates(q, p)}

AddedPairs == {<<key_fn1(d), key_fn2(d)>> : d \in front_added}

\* C23: after any sequence of adds the pairs held are exactly the
\* Pareto-minimal pairs of the items ever added, each held once; and add
\* returns false exactly when a held item dominates the new item or has its
\* objectives, and then leaves the front as it was.
C23_FrontIsParetoMinimal ==
    /\ [](/\ HeldPairs(items) = ParetoMinimal(AddedPairs)
          /\ Cardinality(HeldPairs(items)) = Len(items))
    /\ [][LET p == <<key_fn1(front_op'.data), key_fn2(front_op'.data)>>
              covered == \E q \in HeldPairs(items) : PairDominates(q, p) \/ q = p
          IN  /\ front_op'.result = ~covered
              /\ covered => items' = items
              /\ ~covered => items'[Len(items')].data = front_op'.data
         ]_vars

\* The add of (0, 0) was accepted after (0, 2), (1, 1) and (2, 0) had been
\* added, and is the only item left.
C23_Witness ==
    /\ front_op.name = "add"
    /\ front_op.data = <<0, 0>>
    /\ front_op.result
    /\ {<<0, 2>>, <<1, 1>>, <<2, 0>>} \subseteq front_added
    /\ Len(items) = 1

====
